---- MODULE Spec2Model ----
(***************************************************************************)
(* Insight generation and reconciliation engine of tools.garmin.dailysync. *)
(*                                                                         *)
(* State: the ai_insights table (utils/sqlite.ts), the remote activities'  *)
(* descriptions (Garmin), the position of the running                      *)
(* processActivityWithInsights call and of the running                     *)
(* syncMissingInsightsToGarmin sweep (utils/ai_insights.ts).               *)
(*                                                                         *)
(* Text is a sequence of tokens.  Every whitespace character is a token of *)
(* its own (" " and "\n"), so that String.prototype.trim and the separator *)
(* "\n\n---\n\n" are modelled character by character; the other tokens are *)
(* words that share no character with the marker or the separator.         *)
(***************************************************************************)
EXTENDS Integers, Sequences, FiniteSets, TLC

VARIABLES enabled, columns, store, seq, remote, edits, call, prev, sweep, lastAdd,
          gen, parse, hist, ctx, batch, gate, prompt, upsert

vars == <<enabled, columns, store, seq, remote, edits, call, prev, sweep, lastAdd,
          gen, parse, hist, ctx, batch, gate, prompt, upsert>>

\* the generation client, the confidence parser, the store history, the
\* historical context, the batch loops, the rate-limit gate under overlapping
\* invocations, the prompt and the steps of one remote upsert: they are
\* studied on their own, apart from the reconciliation engine
aux == <<gen, parse, hist, ctx, batch, gate, prompt, upsert>>

(***************************************************************************)
(* Bounds                                                                  *)
(***************************************************************************)
\* number of rows ever inserted into ai_insights (caps the AUTOINCREMENT id)
MaxSaves == 2
\* number of edits the user makes to remote descriptions
MaxEdits == 1

(***************************************************************************)
(* Text tokens                                                             *)
(***************************************************************************)
\* U+1F916, the robot emoji of the detector and of the removal pattern
Robot == "U+1F916"
\* the four characters U+00F0 U+0178 U+00A4 U+2013 that ai_insights.ts
\* holds in front of " AI Insights (" in the two comment templates
RobotCp1252 == "U+00F0 U+0178 U+00A4 U+2013"
Label == "AI Insights"
NL == "\n"
SP == " "
GEMINI_MODEL == "gemini-2.5-flash-lite"

\* '\n\n---\n\n'
Separator == <<NL, NL, "---", NL, NL>>
\* '🤖 AI Insights'
EmojiMarker == <<Robot, SP, Label>>
\* 'AI Insights ('
ParenMarker == <<Label, SP, "(">>

(***************************************************************************)
(* String helpers                                                          *)
(***************************************************************************)
\* s has the token sequence p at position i
HasAt(s, i, p) ==
    /\ i >= 1
    /\ i + Len(p) - 1 <= Len(s)
    /\ \A k \in 1..Len(p) : s[i + k - 1] = p[k]

\* String.prototype.includes
Includes(s, p) == \E i \in 1..Len(s) : HasAt(s, i, p)

IsSpace(c) == c \in {SP, NL}

\* String.prototype.trim
Trim(s) ==
    IF \A i \in 1..Len(s) : IsSpace(s[i]) THEN <<>>
    ELSE LET first == CHOOSE i \in 1..Len(s) :
                        /\ ~IsSpace(s[i])
                        /\ \A j \in 1..(i - 1) : IsSpace(s[j])
             last == CHOOSE i \in 1..Len(s) :
                        /\ ~IsSpace(s[i])
                        /\ \A j \in (i + 1)..Len(s) : IsSpace(s[j])
         IN SubSeq(s, first, last)

\* String(activity.activityId): a numeric identifier is printed in decimal
StringOf(rawId) == IF rawId.kind = "num" THEN ToString(rawId.v) ELSE rawId.v

\* (confidence * 100).toFixed(0); the confidence is kept in hundredths
Percent(confidence) == ToString(confidence)

(***************************************************************************)
(* Input domains                                                           *)
(***************************************************************************)
\* activities as the remote service lists them: the identifier is a number
\* or a string (GarminActivity.activityId)
Activities ==
    { [activityId |-> [kind |-> "num", v |-> 100], activityName |-> "Morning Run"],
      [activityId |-> [kind |-> "str", v |-> "100"], activityName |-> "Morning Run"],
      [activityId |-> [kind |-> "str", v |-> "200"], activityName |-> "Track Intervals"] }

ActivityIds == { StringOf(a.activityId) : a \in Activities }

\* results the generation client can return (insight text already trimmed,
\* confidence in hundredths)
GenResults ==
    { [isNull |-> FALSE, insight |-> <<"Steady aerobic run.">>,
       model |-> GEMINI_MODEL, confidence |-> 85],
      [isNull |-> FALSE, insight |-> <<"Hard intervals,", NL, "rest tomorrow.">>,
       model |-> GEMINI_MODEL, confidence |-> 70] }

NullResult == [isNull |-> TRUE, insight |-> <<>>, model |-> "", confidence |-> 0]

\* descriptions a user can type into the remote activity
UserDescriptions ==
    { <<"Felt", SP, "great">>,
      <<SP>>,
      <<"Felt", SP, "great">> \o Separator
          \o <<Robot, SP, Label, SP, "(", "old-model", ")", NL, "Old insight">>,
      <<Label, SP, "(", "old-model", ")", NL, "Old insight">> \o Separator
          \o <<"notes">> }

FetchOutcomes == {"ok", "null", "throw"}
PostOutcomes == {"ok", "throw"}

(***************************************************************************)
(* Insight store (utils/sqlite.ts)                                         *)
(***************************************************************************)
FullSchema == {"id", "activity_id", "activity_name", "insight",
               "model", "confidence", "created_at"}
OldSchema == {"id", "activity_id", "activity_name", "insight"}

\* an older table that has its created_at column already
OldSchemaWithCreatedAt == OldSchema \cup {"created_at"}

\* the migrations, in the order of the loop.  constantDefault tells whether
\* SQLite accepts the DEFAULT clause in ALTER TABLE ... ADD COLUMN: 'unknown'
\* and 0.7 are literals; datetime('now') is a function call, which the
\* statement rejects (a syntax error, raised by db.exec)
Migrations ==
    << [column |-> "model", constantDefault |-> TRUE],
       [column |-> "confidence", constantDefault |-> TRUE],
       [column |-> "created_at", constantDefault |-> FALSE] >>

\* the migration loop from its i-th entry on: the columns of the table when
\* the loop ends, and whether it ended by an exception
RECURSIVE Migrate(_, _)
Migrate(cols, i) ==
    IF i > Len(Migrations) THEN [columns |-> cols, threw |-> FALSE]
    ELSE IF Migrations[i].column \in cols THEN Migrate(cols, i + 1)
    ELSE IF ~Migrations[i].constantDefault THEN [columns |-> cols, threw |-> TRUE]
    ELSE Migrate(cols \cup {Migrations[i].column}, i + 1)

\* initAIInsightsTable: create the table, or add the missing columns; the
\* columns of the table when the call ends
InitAIInsightsTable(cols) ==
    IF cols = {} THEN FullSchema ELSE Migrate(cols, 1).columns

\* initAIInsightsTable ends by an exception
InitAIInsightsTableThrows(cols) == cols # {} /\ Migrate(cols, 1).threw

\* the rows whose activity_id is not id, in order
RECURSIVE FilterRows(_, _)
FilterRows(rows, id) ==
    IF rows = <<>> THEN <<>>
    ELSE IF Head(rows).activityId = id THEN FilterRows(Tail(rows), id)
    ELSE <<Head(rows)>> \o FilterRows(Tail(rows), id)

\* faulty variant of SaveAIInsight: the row is not written
SaveAIInsightLost(rows, lastId, data) == rows

\* faulty variant of SaveAIInsight: a plain INSERT, the row of the same
\* activity_id stays
SaveAIInsightAppends(rows, lastId, data) ==
    rows \o << [id |-> lastId + 1,
                activityId |-> data.activityId,
                activityName |-> data.activityName,
                insight |-> data.insight,
                model |-> data.model,
                confidence |-> data.confidence] >>

\* faulty variant of SaveAIInsight: the row of the same activity_id is updated
\* in place and keeps its id
SaveAIInsightKeepsId(rows, lastId, data) ==
    IF \E i \in 1..Len(rows) : rows[i].activityId = data.activityId
    THEN [i \in 1..Len(rows) |->
            IF rows[i].activityId = data.activityId
            THEN [id |-> rows[i].id,
                  activityId |-> data.activityId,
                  activityName |-> data.activityName,
                  insight |-> data.insight,
                  model |-> data.model,
                  confidence |-> data.confidence]
            ELSE rows[i]]
    ELSE rows \o << [id |-> lastId + 1,
                     activityId |-> data.activityId,
                     activityName |-> data.activityName,
                     insight |-> data.insight,
                     model |-> data.model,
                     confidence |-> data.confidence] >>

\* saveAIInsight: INSERT OR REPLACE on the UNIQUE activity_id; the replaced
\* row is deleted and the new row takes the next AUTOINCREMENT id
SaveAIInsight(rows, lastId, data) ==
    FilterRows(rows, data.activityId)
        \o << [id |-> lastId + 1,
               activityId |-> data.activityId,
               activityName |-> data.activityName,
               insight |-> data.insight,
               model |-> data.model,
               confidence |-> data.confidence] >>

\* faulty variant of HasAIInsight: the query finds no row
HasAIInsightFindsNone(rows, id) == FALSE

\* hasAIInsight: SELECT insight ... WHERE activity_id = ? finds a row
HasAIInsight(rows, id) == \E i \in 1..Len(rows) : rows[i].activityId = id

\* deleteInsight (refresh_insights.ts)
DeleteInsight(rows, id) == FilterRows(rows, id)

\* getAllAIInsights: ORDER BY id DESC
GetAllAIInsights(rows) == [i \in 1..Len(rows) |-> rows[Len(rows) + 1 - i]]

(***************************************************************************)
(* Remote comment upsert (garmin_common: addActivityComment)               *)
(***************************************************************************)
\* activity.description || ''
DescriptionOf(act) == IF act.descNull THEN <<>> ELSE act.description

\* description.includes('🤖 AI Insights') || description.includes('AI Insights (')
HasInsightMarker(d) == Includes(d, EmojiMarker) \/ Includes(d, ParenMarker)

\* first position k >= j where the lazy [^]*? stops: a separator follows, or
\* the text ends
RECURSIVE BlockEnd(_, _)
BlockEnd(s, j) ==
    IF j > Len(s) \/ HasAt(s, j, Separator) THEN j ELSE BlockEnd(s, j + 1)

\* currentDescription.replace(/(\n\n---\n\n)?🤖 AI Insights[^]*?(?=\n\n---\n\n|$)/g, '')
RECURSIVE RemoveFrom(_, _)
RemoveFrom(s, i) ==
    IF i > Len(s) THEN <<>>
    ELSE IF HasAt(s, i, Separator \o EmojiMarker)
         THEN RemoveFrom(s, BlockEnd(s, i + Len(Separator) + Len(EmojiMarker)))
    ELSE IF HasAt(s, i, EmojiMarker)
         THEN RemoveFrom(s, BlockEnd(s, i + Len(EmojiMarker)))
    ELSE <<s[i]>> \o RemoveFrom(s, i + 1)

RemoveInsights(s) == RemoveFrom(s, 1)

\* faulty variant of ComposeComment: the confidence percentage is left out
ComposeCommentNoConfidence(model, confidence, insight) ==
    <<RobotCp1252, SP, Label, SP, "(", model, "):", NL>> \o insight

\* faulty variant of ComposeComment: the label is not followed by " ("
ComposeCommentNoParenthesis(model, confidence, insight) ==
    <<RobotCp1252, SP, Label, ":", SP, model, ",", SP, Percent(confidence),
      "% confidence", NL>> \o insight

\* the comment both callers compose (ai_insights.ts:491 and :595)
ComposeComment(model, confidence, insight) ==
    <<RobotCp1252, SP, Label, SP, "(", model, ",", SP, Percent(confidence),
      "% confidence):", NL>> \o insight

\* faulty variant of NewDescription: the existing description is always trimmed
NewDescriptionTrimmed(current, comment) ==
    LET cleaned == Trim(current)
        separator == IF cleaned # <<>> THEN Separator ELSE <<>>
    IN cleaned \o separator \o comment

\* the description addActivityComment posts when it does post
NewDescription(current, comment) ==
    LET cleaned == IF HasInsightMarker(current)
                   THEN Trim(RemoveInsights(current))
                   ELSE current
        separator == IF cleaned # <<>> THEN Separator ELSE <<>>
    IN cleaned \o separator \o comment

\* faulty variant of AddActivityComment: the non-force no-op is missing
AddActivityCommentAlwaysWrites(act, comment, forceCheck, fetch, post) ==
    LET current == DescriptionOf(act)
        unchanged(r) == [ret |-> r, wrote |-> FALSE, act |-> act, raised |-> FALSE]
    IN IF fetch # "ok" THEN unchanged(FALSE)
       ELSE IF post # "ok" THEN unchanged(FALSE)
       ELSE [ret |-> TRUE, wrote |-> TRUE, raised |-> FALSE,
             act |-> [descNull |-> FALSE,
                      description |-> current \o Separator \o comment]]

\* faulty variant of AddActivityCommentTry: the force flag is not tested, a
\* description that carries the marker is rewritten like any other
AddActivityCommentTryRewrites(act, comment, forceCheck, fetch, post) ==
    LET current == DescriptionOf(act)
        left(r, t) == [threw |-> t, ret |-> r, wrote |-> FALSE, act |-> act]
    IN IF fetch = "throw" THEN left(FALSE, TRUE)
       ELSE IF fetch = "null" THEN left(FALSE, FALSE)
       ELSE IF post # "ok" THEN left(FALSE, TRUE)
       ELSE [threw |-> FALSE, ret |-> TRUE, wrote |-> TRUE,
             act |-> [descNull |-> FALSE,
                      description |-> NewDescription(current, comment)]]

\* the try block of addActivityComment, given what the remote fetch and the
\* remote post do: threw tells that control left the block by an exception
\* (getActivity or the POST rejected), ret is the value returned otherwise,
\* wrote whether the remote description changed
AddActivityCommentTry(act, comment, forceCheck, fetch, post) ==
    LET current == DescriptionOf(act)
        left(r, t) == [threw |-> t, ret |-> r, wrote |-> FALSE, act |-> act]
    IN IF fetch = "throw" THEN left(FALSE, TRUE)
       ELSE IF fetch = "null" THEN left(FALSE, FALSE)
       ELSE IF HasInsightMarker(current) /\ ~forceCheck THEN left(TRUE, FALSE)
       ELSE IF post # "ok" THEN left(FALSE, TRUE)
       ELSE [threw |-> FALSE, ret |-> TRUE, wrote |-> TRUE,
             act |-> [descNull |-> FALSE,
                      description |-> NewDescription(current, comment)]]

\* faulty variant of AddActivityComment: the catch clause is missing, so an
\* exception of the try block reaches the caller
AddActivityCommentNoCatch(act, comment, forceCheck, fetch, post) ==
    LET t == AddActivityCommentTry(act, comment, forceCheck, fetch, post)
    IN [ret |-> t.ret, wrote |-> t.wrote, act |-> t.act, raised |-> t.threw]

\* addActivityComment: the try block, and the catch clause that turns every
\* exception into the return value false; raised tells that an exception
\* reached the caller
AddActivityComment(act, comment, forceCheck, fetch, post) ==
    LET t == AddActivityCommentTry(act, comment, forceCheck, fetch, post)
    IN [ret |-> IF t.threw THEN FALSE ELSE t.ret,
        wrote |-> t.wrote, act |-> t.act, raised |-> FALSE]

\* faulty variant of HasActivityInsight: the marker is not looked for, every
\* description that could be fetched reads as carrying an insight
HasActivityInsightAnyText(act, fetch) ==
    IF fetch = "throw" THEN FALSE
    ELSE IF fetch = "null" THEN FALSE
    ELSE TRUE

\* hasActivityInsight: a failed fetch reads as "no insight"
HasActivityInsight(act, fetch) ==
    IF fetch = "throw" THEN FALSE
    ELSE IF fetch = "null" THEN FALSE
    ELSE HasInsightMarker(DescriptionOf(act))

(***************************************************************************)
(* The generation client's constants (utils/ai_insights.ts)                *)
(***************************************************************************)
MAX_RETRIES == 3
BASE_DELAY_MS == 2000
MIN_REQUEST_INTERVAL_MS == 1000

\* a confidence is an exact decimal num/den, or NaN
Decimal(num, den) == [nan |-> FALSE, num |-> num, den |-> den]
NaN == [nan |-> TRUE, num |-> 0, den |-> 1]

\* the confidence of a text that carries no tag: 0.7
DefaultConfidence == Decimal(7, 10)

(***************************************************************************)
(* parseConfidence (utils/ai_insights.ts).  The characters of a tag are    *)
(* tokens of their own: "[CONFIDENCE:" in either case (the regular         *)
(* expression carries the i flag), white space, the characters of the      *)
(* class [0-9.], and "]".                                                  *)
(***************************************************************************)
MaxNumLen == 3

TagOpens == {"[CONFIDENCE:", "[confidence:"}
TagClose == "]"
Digits == {"0", "1", "5", "8"}
NumChars == Digits \cup {"."}

DigitValue(c) ==
    CASE c = "0" -> 0 [] c = "1" -> 1 [] c = "5" -> 5 [] c = "8" -> 8

\* the first position >= i of s that holds no character of the class, or
\* Len(s) + 1
RECURSIVE RunEnd(_, _, _)
RunEnd(s, i, class) ==
    IF i <= Len(s) /\ s[i] \in class THEN RunEnd(s, i + 1, class) ELSE i

\* /\[CONFIDENCE:\s*([0-9.]+)\]/i matches at position i of s
TagAt(s, i) ==
    /\ s[i] \in TagOpens
    /\ LET j == RunEnd(s, i + 1, {SP, NL})
           k == RunEnd(s, j, NumChars)
       IN k > j /\ k <= Len(s) /\ s[k] = TagClose

\* the match: its first and last position and the captured group
TagMatch(s, i) ==
    LET j == RunEnd(s, i + 1, {SP, NL})
        k == RunEnd(s, j, NumChars)
    IN [first |-> i, last |-> k, group |-> SubSeq(s, j, k - 1)]

\* the positions where the regular expression matches
TagPositions(s) == {i \in 1..Len(s) : TagAt(s, i)}

\* String.prototype.match without the g flag: the leftmost match
FirstTag(s) ==
    TagMatch(s, CHOOSE i \in TagPositions(s) : \A k \in TagPositions(s) : i <= k)

\* the value of a sequence of digits, and ten to the power n
RECURSIVE DigitsValue(_)
DigitsValue(d) ==
    IF d = <<>> THEN 0
    ELSE 10 * DigitsValue(SubSeq(d, 1, Len(d) - 1)) + DigitValue(d[Len(d)])

RECURSIVE Pow10(_)
Pow10(n) == IF n = 0 THEN 1 ELSE 10 * Pow10(n - 1)

\* parseFloat on a string of the class [0-9.]: the longest prefix that is a
\* decimal literal (digits, then optionally a dot and digits, one digit at
\* least), NaN when there is none
ParseFloat(g) ==
    LET a == RunEnd(g, 1, Digits)
        int == SubSeq(g, 1, a - 1)
        b == IF a <= Len(g) /\ g[a] = "." THEN RunEnd(g, a + 1, Digits) ELSE a
        frac == IF b > a THEN SubSeq(g, a + 1, b - 1) ELSE <<>>
    IN IF int = <<>> /\ frac = <<>> THEN NaN
       ELSE Decimal(DigitsValue(int) * Pow10(Len(frac)) + DigitsValue(frac),
                    Pow10(Len(frac)))

\* Math.min(1.0, Math.max(0.0, c)): NaN goes through both
Clamp01(c) ==
    IF c.nan THEN NaN
    ELSE IF c.num < 0 THEN Decimal(0, 1)
    ELSE IF c.num > c.den THEN Decimal(1, 1)
    ELSE c

\* parseConfidence
ParseConfidence(text) ==
    IF TagPositions(text) # {}
    THEN LET match == FirstTag(text)
             confidence == ParseFloat(match.group)
             insight == Trim(SubSeq(text, 1, match.first - 1)
                             \o SubSeq(text, match.last + 1, Len(text)))
         IN [insight |-> insight, confidence |-> Clamp01(confidence)]
    ELSE [insight |-> text, confidence |-> DefaultConfidence]

(***************************************************************************)
(* Numbers of the trend section (utils/ai_insights.ts).  A metric is       *)
(* undefined, an exact fraction n/d (d > 0), NaN or an infinity.           *)
(***************************************************************************)
Undefined == [kind |-> "undefined", n |-> 0, d |-> 1]
NotANumber == [kind |-> "NaN", n |-> 0, d |-> 1]
Infinite == [kind |-> "Infinity", n |-> 0, d |-> 1]

RECURSIVE Gcd(_, _)
Gcd(a, b) == IF b = 0 THEN a ELSE Gcd(b, a % b)

Abs(x) == IF x < 0 THEN -x ELSE x

\* the fraction n/d in lowest terms, d # 0
Num(n, d) ==
    LET g == Gcd(Abs(n), Abs(d))
        sign == IF d < 0 THEN -1 ELSE 1
    IN [kind |-> "number", n |-> sign * (n \div g), d |-> sign * (d \div g)]

\* !x is false
Truthy(x) == (x.kind = "number" /\ x.n # 0) \/ x.kind = "Infinity"

\* a / b
Div(a, b) ==
    IF a.kind \in {"undefined", "NaN"} \/ b.kind \in {"undefined", "NaN"}
    THEN NotANumber
    ELSE IF a.kind = "Infinity"
    THEN (IF b.kind = "Infinity" THEN NotANumber ELSE Infinite)
    ELSE IF b.kind = "Infinity" THEN Num(0, 1)
    ELSE IF b.n = 0 THEN (IF a.n = 0 THEN NotANumber ELSE Infinite)
    ELSE Num(a.n * b.d, a.d * b.n)

\* a + b and a - b (the infinities of the section all have one sign)
Add(a, b) ==
    IF a.kind \in {"undefined", "NaN"} \/ b.kind \in {"undefined", "NaN"}
    THEN NotANumber
    ELSE IF a.kind = "Infinity" \/ b.kind = "Infinity" THEN Infinite
    ELSE Num(a.n * b.d + b.n * a.d, a.d * b.d)

Sub(a, b) ==
    IF a.kind \in {"undefined", "NaN"} \/ b.kind \in {"undefined", "NaN"}
    THEN NotANumber
    ELSE IF a.kind = "Infinity" /\ b.kind = "Infinity" THEN NotANumber
    ELSE IF a.kind = "Infinity" \/ b.kind = "Infinity" THEN Infinite
    ELSE Num(a.n * b.d - b.n * a.d, a.d * b.d)

\* x * 100
Times100(x) == IF x.kind = "number" THEN Num(100 * x.n, x.d) ELSE x

\* x > 0
Positive(x) == x.kind = "Infinity" \/ (x.kind = "number" /\ x.n > 0)

\* faulty variant of FormatTrendComparison: only undefined operands are
\* turned away, a zero goes through
FormatTrendComparisonNoZeroTest(current, previous, metric) ==
    IF current.kind = "undefined" \/ previous.kind = "undefined" THEN <<>>
    ELSE LET diff == Sub(current, previous)
         IN << [metric |-> metric, current |-> current, previous |-> previous,
                diff |-> diff,
                percentChange |-> Times100(Div(diff, previous))] >>

\* formatTrendComparison: no line (the empty string) when an operand is
\* falsy, one line otherwise, with the two values it renders by toFixed
FormatTrendComparison(current, previous, metric) ==
    IF ~Truthy(current) \/ ~Truthy(previous) THEN <<>>
    ELSE LET diff == Sub(current, previous)
         IN << [metric |-> metric, current |-> current, previous |-> previous,
                diff |-> diff,
                percentChange |-> Times100(Div(diff, previous))] >>

(***************************************************************************)
(* getHistoricalContext and formatHistoricalSection.  An activity of the   *)
(* list has an identifier, a type key, a start time (civil day and hour of *)
(* startTimeLocal) and the three metrics the trend section reads.          *)
(***************************************************************************)
RecentLimit == 7

\* new Date(a.startTimeLocal), in hours
Timestamp(a) == a.day * 24 + a.hour

\* getDateString of a time t: the date of its ISO (UTC) rendering, in a
\* process whose local time is tz hours ahead of UTC
GetDateString(t, tz) == (t - tz) \div 24

\* the elements of a set of positions, in increasing order
RECURSIVE InOrder(_)
InOrder(S) ==
    IF S = {} THEN <<>>
    ELSE LET m == CHOOSE i \in S : \A k \in S : i <= k
         IN <<m>> \o InOrder(S \ {m})

\* Array.prototype.sort (stable) of positions by timestamp, latest first
RECURSIVE SortLatestFirst(_, _)
SortLatestFirst(all, S) ==
    IF S = {} THEN <<>>
    ELSE LET m == CHOOSE i \in S : \A k \in S :
                      \/ Timestamp(all[i]) > Timestamp(all[k])
                      \/ Timestamp(all[i]) = Timestamp(all[k]) /\ i <= k
         IN <<m>> \o SortLatestFirst(all, S \ {m})

\* Array.prototype.find over positions: the first one of S, 0 for undefined
Find(S) == IF S = {} THEN 0 ELSE CHOOSE i \in S : \A k \in S : i <= k

\* faulty variant of SameTypeActivities: the identifiers are compared as they
\* are, a number never equals a string
SameTypeActivitiesStrict(currentActivity, allActivities) ==
    {i \in 1..Len(allActivities) :
        /\ allActivities[i].typeKey = currentActivity.typeKey
        /\ allActivities[i].activityId # currentActivity.activityId}

\* sameTypeActivities: the positions of the activities of the same type whose
\* stringified identifier differs from the current one
SameTypeActivities(currentActivity, allActivities) ==
    {i \in 1..Len(allActivities) :
        /\ allActivities[i].typeKey = currentActivity.typeKey
        /\ StringOf(allActivities[i].activityId)
              # StringOf(currentActivity.activityId)}

\* faulty variant of RecentActivities: the list is cut before it is sorted
RecentActivitiesCutFirst(currentActivity, allActivities, sameType) ==
    LET earlier == {i \in sameType :
                      Timestamp(allActivities[i]) < Timestamp(currentActivity)}
        cut == SubSeq(InOrder(earlier), 1,
                      IF Cardinality(earlier) < RecentLimit
                      THEN Cardinality(earlier) ELSE RecentLimit)
    IN SortLatestFirst(allActivities, {cut[i] : i \in 1..Len(cut)})

\* recentActivities: filter, sort, slice(0, 7)
RecentActivities(currentActivity, allActivities, sameType) ==
    LET earlier == {i \in sameType :
                      Timestamp(allActivities[i]) < Timestamp(currentActivity)}
        sorted == SortLatestFirst(allActivities, earlier)
    IN SubSeq(sorted, 1, IF Len(sorted) < RecentLimit THEN Len(sorted)
                         ELSE RecentLimit)

\* getHistoricalContext: the fields hold positions of allActivities
GetHistoricalContext(currentActivity, allActivities, tz) ==
    LET sameType == SameTypeActivities(currentActivity, allActivities)
        currentDate == Timestamp(currentActivity)
        yesterdayStr == GetDateString(currentDate - 24, tz)
        lastWeekStart == currentDate - 8 * 24
        lastWeekEnd == currentDate - 6 * 24
    IN [yesterdayActivity |->
            Find({i \in sameType :
                    GetDateString(Timestamp(allActivities[i]), tz) = yesterdayStr}),
        lastWeekActivity |->
            Find({i \in sameType :
                    /\ Timestamp(allActivities[i]) >= lastWeekStart
                    /\ Timestamp(allActivities[i]) <= lastWeekEnd}),
        recentActivities |->
            RecentActivities(currentActivity, allActivities, sameType)]

\* 1000 / averageSpeed / 60 when averageSpeed is truthy and positive
PaceOf(a) ==
    IF Truthy(a.averageSpeed) /\ Positive(a.averageSpeed)
    THEN Div(Div(Num(1000, 1), a.averageSpeed), Num(60, 1))
    ELSE Undefined

\* distance / 1000 when distance is truthy
DistanceKmOf(a) ==
    IF Truthy(a.distance) THEN Div(a.distance, Num(1000, 1)) ELSE Undefined

\* x || 0
OrZero(x) == IF Truthy(x) THEN x ELSE Num(0, 1)

\* the three comparison lines against one earlier activity
CompareWith(currentActivity, other, label) ==
    FormatTrendComparison(PaceOf(currentActivity), PaceOf(other),
                          <<label, "Pace">>)
    \o FormatTrendComparison(DistanceKmOf(currentActivity), DistanceKmOf(other),
                             <<label, "Distance">>)
    \o FormatTrendComparison(currentActivity.averageHR, other.averageHR,
                             <<label, "Avg HR">>)

\* reduce((sum, a) => sum + term(a), 0) over a list of numbers
RECURSIVE SumOf(_)
SumOf(terms) ==
    IF terms = <<>> THEN Num(0, 1) ELSE Add(Head(terms), SumOf(Tail(terms)))

\* the comparison lines against the averages of the recent activities
CompareWithAverage(currentActivity, recent) ==
    LET n == Len(recent)
        withSpeed == {i \in 1..n : Truthy(recent[i].averageSpeed)
                                     /\ Positive(recent[i].averageSpeed)}
        withHR == {i \in 1..n : Truthy(recent[i].averageHR)}
        avgPace == Div(SumOf([i \in 1..n |->
                                IF i \in withSpeed THEN PaceOf(recent[i])
                                ELSE Num(0, 1)]),
                       Num(Cardinality(withSpeed), 1))
        avgDistance == Div(Div(SumOf([i \in 1..n |-> OrZero(recent[i].distance)]),
                               Num(n, 1)),
                           Num(1000, 1))
        avgHR == Div(SumOf([i \in 1..n |-> OrZero(recent[i].averageHR)]),
                     Num(Cardinality(withHR), 1))
    IN (IF Truthy(avgPace) /\ Truthy(PaceOf(currentActivity))
        THEN FormatTrendComparison(PaceOf(currentActivity), avgPace,
                                   <<"average", "Pace">>)
        ELSE <<>>)
       \o (IF Truthy(avgDistance) /\ Truthy(DistanceKmOf(currentActivity))
           THEN FormatTrendComparison(DistanceKmOf(currentActivity), avgDistance,
                                      <<"average", "Distance">>)
           ELSE <<>>)
       \o (IF Truthy(avgHR) /\ Truthy(currentActivity.averageHR)
           THEN FormatTrendComparison(currentActivity.averageHR, avgHR,
                                      <<"average", "Avg HR">>)
           ELSE <<>>)

\* formatHistoricalSection: the trend lines of the three sections
FormatHistoricalSection(context, currentActivity, allActivities) ==
    (IF context.yesterdayActivity # 0
     THEN CompareWith(currentActivity, allActivities[context.yesterdayActivity],
                      "yesterday")
     ELSE <<>>)
    \o (IF context.lastWeekActivity # 0
        THEN CompareWith(currentActivity, allActivities[context.lastWeekActivity],
                         "last week")
        ELSE <<>>)
    \o (IF context.recentActivities # <<>>
        THEN CompareWithAverage(currentActivity,
                 [i \in 1..Len(context.recentActivities) |->
                     allActivities[context.recentActivities[i]]])
        ELSE <<>>)

(***************************************************************************)
(* State                                                                   *)
(***************************************************************************)
IdleCall ==
    [pc |-> "idle", activityId |-> "", activityName |-> "", forceUpdate |-> FALSE,
     client |-> FALSE, result |-> NullResult, ret |-> NullResult,
     hadRecord |-> FALSE, gens |-> 0, saves |-> 0, posts |-> 0,
     commentOk |-> FALSE, fault |-> FALSE, raised |-> FALSE,
     preStore |-> <<>>, preDescription |-> <<>>]

NoPrev == [valid |-> FALSE, activityId |-> "", forceUpdate |-> FALSE,
           ret |-> NullResult, gens |-> 0, hadRecord |-> FALSE, fault |-> FALSE]

IdleSweep ==
    [pc |-> "idle", list |-> <<>>, idx |-> 0, syncedCount |-> 0,
     skippedCount |-> 0, errorCount |-> 0, visited |-> <<>>, ret |-> 0]

\* no batch is running.  mode tells the loop (processActivitiesWithInsights
\* or refreshInsights), force and client its arguments, list the activities,
\* idx the position of the loop; visited holds one entry per activity the
\* loop is through with, cause tells what ended the run early, prior whether
\* the store held a record of the activity when its iteration began; kills
\* counts the runs that were terminated from outside, cut is the activity
\* whose call was cut last between its store write and its remote post
IdleBatch ==
    [pc |-> "idle", mode |-> "", force |-> FALSE, client |-> FALSE,
     list |-> <<>>, idx |-> 0, visited |-> <<>>, prior |-> FALSE,
     kills |-> 0, cut |-> "",
     processedCount |-> 0, skippedCount |-> 0, errorCount |-> 0, cause |-> ""]

\* waitForRateLimit under two overlapping invocations of
\* generateActivityInsights: the clock, the module variable lastRequestTime,
\* each invocation's place and the time its timer is due, and the times at
\* which the external calls started
IdleGate ==
    [now |-> MIN_REQUEST_INTERVAL_MS, lastRequestTime |-> 0,
     pc |-> [i \in 1..2 |-> "idle"], due |-> [i \in 1..2 |-> 0],
     starts |-> <<>>]

\* formatActivityPrompt has not been called: the formatter (the one of
\* ai_insights.ts or the one of garmin_cn.ts), the numeric metrics of the
\* activity, two names for it, and the workout hints computed for each name
NoPrompt ==
    [pc |-> "idle", version |-> "", metrics |-> <<>>, nameA |-> <<>>, nameB |-> <<>>,
     hintsA |-> <<>>, hintsB |-> <<>>]

\* addActivityComment is not running.  runs counts its invocations; atFetch
\* is the activity getActivity answered with, newDescription the text
\* composed from it, atWrite the remote description at the moment of the
\* POST, written the description the POST put there
NoUpsert ==
    [pc |-> "idle", runs |-> 0, activityId |-> "", comment |-> <<>>,
     forceCheck |-> FALSE, atFetch |-> [descNull |-> TRUE, description |-> <<>>],
     newDescription |-> <<>>, atWrite |-> <<>>, written |-> <<>>,
     ret |-> FALSE, wrote |-> FALSE]

\* no record was saved for the activity
NoData == [activityId |-> "", activityName |-> "", insight |-> <<>>,
           model |-> "", confidence |-> 0]

\* the history of the store: for every activity id the data of its last
\* saveAIInsight, the rank of that call among all saves (0: never saved) and
\* the number of saves for the id;
\* the last getAllAIInsights result; the last initAIInsightsTable invocation
\* (columns and rows before it, whether it threw, whether the invocation
\* before it was an initAIInsightsTable that returned)
NoHist ==
    [saves |-> 0,
     last |-> [id \in ActivityIds |-> NoData],
     at |-> [id \in ActivityIds |-> 0],
     count |-> [id \in ActivityIds |-> 0],
     listed |-> FALSE, listing |-> <<>>,
     init |-> [valid |-> FALSE, before |-> {}, rows |-> <<>>, threw |-> FALSE,
               again |-> FALSE]]

NoAdd == [valid |-> FALSE, activityId |-> "", comment |-> <<>>, forceCheck |-> FALSE,
          before |-> <<>>, fetched |-> FALSE, fetch |-> "ok", ret |-> FALSE,
          wrote |-> FALSE, raised |-> FALSE, after |-> <<>>]

\* the record of one addActivityComment invocation
AddRecord(id, comment, forceCheck, act, fetch, out) ==
    [valid |-> TRUE, activityId |-> id, comment |-> comment,
     forceCheck |-> forceCheck, before |-> DescriptionOf(act),
     fetched |-> (fetch = "ok"), fetch |-> fetch, ret |-> out.ret,
     wrote |-> out.wrote, raised |-> out.raised,
     after |-> DescriptionOf(out.act)]

\* generateActivityInsights is not running: now is Date.now(), lastRequestTime
\* the module variable of that name, attempt the loop variable; calls, sleeps,
\* outcomes, prevCallAt and lastCallAt record what the running invocation did
\* and when the last two external calls started (-1: no such call), hint is
\* the retry delay the last rate-limit error carried
IdleGen ==
    [pc |-> "idle", invocations |-> 0, now |-> MIN_REQUEST_INTERVAL_MS,
     lastRequestTime |-> 0, attempt |-> 0, waitTime |-> 0, retryDelay |-> 0,
     calls |-> 0, sleeps |-> 0, outcomes |-> <<>>, hint |-> <<>>,
     prevCallAt |-> -1, lastCallAt |-> -1, ret |-> NullResult]

\* getHistoricalContext has not been called: the current activity, the list,
\* the pool the list is drawn from and the bound of its length, the local
\* time zone; then the context and the lines of the trend section
NoContext ==
    [pc |-> "idle", pool |-> {}, maxLen |-> 0, tz |-> 0,
     currentActivity |-> [activityId |-> [kind |-> "str", v |-> ""],
                          typeKey |-> "", day |-> 0, hour |-> 0,
                          averageSpeed |-> Undefined, distance |-> Undefined,
                          averageHR |-> Undefined],
     allActivities |-> <<>>,
     context |-> [yesterdayActivity |-> 0, lastWeekActivity |-> 0,
                  recentActivities |-> <<>>],
     lines |-> <<>>]

\* parseConfidence has not been applied yet
NoParse == [done |-> FALSE, text |-> <<>>, rest |-> <<>>, x |-> <<>>,
            insight |-> <<>>, confidence |-> DefaultConfidence]

\* no processActivityWithInsights call and no sweep is in progress
EngineIdle == call.pc \in {"idle", "done"} /\ sweep.pc \in {"idle", "done", "failed"}

Init ==
    /\ enabled \in BOOLEAN
    /\ columns \in {{}, OldSchema}
    /\ store = <<>>
    /\ seq = 0
    /\ remote = [id \in ActivityIds |-> [descNull |-> TRUE, description |-> <<>>]]
    /\ edits = 0
    /\ call = IdleCall
    /\ prev = NoPrev
    /\ sweep = IdleSweep
    /\ lastAdd = NoAdd
    /\ gen = IdleGen
    /\ parse = NoParse
    /\ hist = NoHist
    /\ ctx = NoContext
    /\ batch = IdleBatch
    /\ gate = IdleGate
    /\ prompt = NoPrompt
    /\ upsert = NoUpsert

\* the call has returned r
Returned(c, r) == [c EXCEPT !.pc = "done", !.ret = r]

\* the catch clause of processActivityWithInsights (ai_insights.ts:514-517):
\* the error is logged and the call returns null; nothing is raised to the
\* caller
Caught(c) == Returned([c EXCEPT !.fault = TRUE, !.raised = FALSE], NullResult)

\* what the previous call did, kept while the next one runs
Summary(c) ==
    IF c.pc = "done"
    THEN [valid |-> TRUE, activityId |-> c.activityId, forceUpdate |-> c.forceUpdate,
          ret |-> c.ret, gens |-> c.gens, hadRecord |-> c.hadRecord,
          fault |-> c.fault]
    ELSE NoPrev

\* faulty variant of SkipExisting: the force flag is tested the wrong way round
SkipExistingInverted(forceUpdate, rows, id) == forceUpdate /\ HasAIInsight(rows, id)

\* the skip test of processActivityWithInsights (ai_insights.ts:465)
SkipExisting(forceUpdate, rows, id) == ~forceUpdate /\ HasAIInsight(rows, id)

(***************************************************************************)
(* processActivityWithInsights                                             *)
(***************************************************************************)
\* entry, feature check, table initialisation and the store lookup
ProcessStart(activity, client, forceUpdate, fault) ==
    LET id == StringOf(activity.activityId)
        c0 == [IdleCall EXCEPT !.activityId = id,
                               !.activityName = activity.activityName,
                               !.forceUpdate = forceUpdate,
                               !.client = client,
                               !.hadRecord =
                                   (\E i \in 1..Len(store) : store[i].activityId = id),
                               !.preStore = store,
                               !.preDescription = DescriptionOf(remote[id])]
    IN /\ sweep.pc \in {"idle", "done", "failed"}
       /\ seq < MaxSaves
       /\ \/ call.pc \in {"idle", "done"} /\ ~forceUpdate
          \/ call.pc = "refresh" /\ forceUpdate /\ client
                /\ call.activityId = id /\ call.activityName = activity.activityName
       /\ prev' = Summary(call)
       /\ IF ~enabled
          THEN /\ call' = Returned(c0, NullResult)
               /\ UNCHANGED columns
          ELSE IF fault
          THEN \* initAIInsightsTable or hasAIInsight throws: caught at line 514
               /\ call' = Caught(c0)
               /\ UNCHANGED columns
          ELSE IF InitAIInsightsTableThrows(columns)
          THEN \* the migration is rejected: caught at line 514
               /\ call' = Caught(c0)
               /\ columns' = InitAIInsightsTable(columns)
          ELSE /\ columns' = InitAIInsightsTable(columns)
               /\ call' = IF SkipExisting(forceUpdate, store, id)
                          THEN Returned(c0, NullResult)
                          ELSE [c0 EXCEPT !.pc = "generate"]
       /\ sweep' = IdleSweep
       /\ lastAdd' = NoAdd
       /\ UNCHANGED <<aux, enabled, store, seq, remote, edits>>

\* faulty variant of ProcessGenerate: the null result is not tested before saving
ProcessGenerateSavesNull(r) ==
    /\ call.pc = "generate"
    /\ call' = [call EXCEPT !.gens = @ + 1, !.result = r, !.pc = "save"]
    /\ UNCHANGED <<aux, enabled, columns, store, seq, remote, edits, prev, sweep, lastAdd>>

\* generateActivityInsights returns a result or null
ProcessGenerate(r) ==
    /\ call.pc = "generate"
    /\ call' = IF r.isNull
               THEN Returned([call EXCEPT !.gens = @ + 1], NullResult)
               ELSE [call EXCEPT !.gens = @ + 1, !.result = r, !.pc = "save"]
    /\ UNCHANGED <<aux, enabled, columns, store, seq, remote, edits, prev, sweep, lastAdd>>

\* saveAIInsight, then return at once when no client was given
ProcessSave(fault) ==
    /\ call.pc = "save"
    /\ IF fault
       THEN /\ call' = Caught(call)
            /\ UNCHANGED <<store, seq>>
       ELSE /\ store' = SaveAIInsight(store, seq,
                            [activityId |-> call.activityId,
                             activityName |-> call.activityName,
                             insight |-> call.result.insight,
                             model |-> call.result.model,
                             confidence |-> call.result.confidence])
            /\ seq' = seq + 1
            /\ call' = IF call.client
                       THEN [call EXCEPT !.saves = @ + 1, !.pc = "comment"]
                       ELSE Returned([call EXCEPT !.saves = @ + 1], call.result)
    /\ UNCHANGED <<aux, enabled, columns, remote, edits, prev, sweep, lastAdd>>

\* faulty variant of ProcessComment: a failed post rolls the store record back and
\* the call returns null
ProcessCommentRollback(fetch, post) ==
    LET id == call.activityId
        comment == ComposeComment(call.result.model, call.result.confidence,
                                  call.result.insight)
        out == AddActivityComment(remote[id], comment, call.forceUpdate, fetch, post)
    IN /\ call.pc = "comment"
       /\ remote' = [remote EXCEPT ![id] = out.act]
       /\ lastAdd' = AddRecord(id, comment, call.forceUpdate, remote[id], fetch, out)
       /\ store' = IF out.ret THEN store ELSE DeleteInsight(store, id)
       /\ call' = Returned([call EXCEPT !.commentOk = out.ret,
                                        !.posts = @ + (IF out.wrote THEN 1 ELSE 0)],
                           IF out.ret THEN call.result ELSE NullResult)
       /\ UNCHANGED <<aux, enabled, columns, seq, edits, prev, sweep>>

\* addActivityComment with the composed comment, then return the result
ProcessComment(fetch, post) ==
    LET id == call.activityId
        comment == ComposeComment(call.result.model, call.result.confidence,
                                  call.result.insight)
        out == AddActivityComment(remote[id], comment, call.forceUpdate, fetch, post)
    IN /\ call.pc = "comment"
       /\ remote' = [remote EXCEPT ![id] = out.act]
       /\ lastAdd' = AddRecord(id, comment, call.forceUpdate, remote[id], fetch, out)
       /\ call' = Returned([call EXCEPT !.commentOk = out.ret,
                                        !.posts = @ + (IF out.wrote THEN 1 ELSE 0),
                                        !.fault = out.raised],
                           IF out.raised THEN NullResult ELSE call.result)
       /\ UNCHANGED <<aux, enabled, columns, store, seq, edits, prev, sweep>>

(***************************************************************************)
(* refreshInsights --force: deleteInsight, then the forced call            *)
(***************************************************************************)
RefreshDelete(activity, fault) ==
    LET id == StringOf(activity.activityId)
    IN /\ enabled
       /\ EngineIdle
       /\ seq < MaxSaves
       /\ prev' = NoPrev
       /\ IF fault \/ InitAIInsightsTableThrows(columns)
          THEN \* deleteInsight throws: caught per activity at line 176;
               \* initAIInsightsTable throws at line 129: the script ends
               /\ call' = IdleCall
               /\ UNCHANGED store
          ELSE /\ store' = DeleteInsight(store, id)
               /\ call' = [IdleCall EXCEPT !.pc = "refresh", !.activityId = id,
                                           !.activityName = activity.activityName]
       /\ columns' = InitAIInsightsTable(columns)
       /\ sweep' = IdleSweep
       /\ lastAdd' = NoAdd
       /\ UNCHANGED <<aux, enabled, seq, remote, edits>>

(***************************************************************************)
(* syncMissingInsightsToGarmin                                             *)
(***************************************************************************)
\* initAIInsightsTable and getAllAIInsights; an empty store returns 0
SweepStart(fault) ==
    /\ EngineIdle
    /\ call' = IdleCall
    /\ prev' = NoPrev
    /\ IF fault
       THEN \* a store failure here is outside the per-item try: it propagates
            /\ sweep' = [IdleSweep EXCEPT !.pc = "failed"]
            /\ UNCHANGED columns
       ELSE IF InitAIInsightsTableThrows(columns)
       THEN \* the migration is rejected at line 566, outside every try
            /\ sweep' = [IdleSweep EXCEPT !.pc = "failed"]
            /\ columns' = InitAIInsightsTable(columns)
       ELSE /\ columns' = InitAIInsightsTable(columns)
            /\ sweep' = IF store = <<>>
                        THEN [IdleSweep EXCEPT !.pc = "done"]
                        ELSE [IdleSweep EXCEPT !.pc = "loop", !.idx = 1,
                                               !.list = GetAllAIInsights(store)]
    /\ lastAdd' = NoAdd
    /\ UNCHANGED <<aux, enabled, store, seq, remote, edits>>

\* faulty variant of SweepForceCheck: the sweep upserts in force mode
SweepForceCheckTrue == TRUE

\* the forceCheck argument of the sweep's addActivityComment (line 603)
SweepForceCheck == FALSE

\* faulty variant of SweepAdvance: the first failed item ends the sweep
SweepAdvanceAbortOnFailure(s, failed) ==
    IF failed \/ s.idx > Len(s.list)
    THEN [s EXCEPT !.pc = "done", !.ret = s.syncedCount]
    ELSE s

\* the loop goes on to the next record whatever the item did, and the
\* function returns syncedCount after the last one
SweepAdvance(s, failed) ==
    IF s.idx > Len(s.list)
    THEN [s EXCEPT !.pc = "done", !.ret = s.syncedCount]
    ELSE s

\* faulty variant of SweepCount: a record that is passed over is not counted
SweepCountSyncsOnly(s, hasInsight, success) ==
    IF hasInsight THEN s
    ELSE IF success THEN [s EXCEPT !.syncedCount = @ + 1]
    ELSE [s EXCEPT !.errorCount = @ + 1]

\* the counters of the sweep: skippedCount++ when the marker is found,
\* syncedCount++ when addActivityComment returns true, errorCount++ when it
\* returns false or when the iteration throws
SweepCount(s, hasInsight, success) ==
    IF hasInsight THEN [s EXCEPT !.skippedCount = @ + 1]
    ELSE IF success THEN [s EXCEPT !.syncedCount = @ + 1]
    ELSE [s EXCEPT !.errorCount = @ + 1]

\* one iteration of the for loop over allInsights
SweepItem(fetch1, fetch2, post) ==
    LET insight == sweep.list[sweep.idx]
        id == insight.activityId
        hasInsight == HasActivityInsight(remote[id], fetch1)
        comment == ComposeComment(insight.model, insight.confidence, insight.insight)
        out == AddActivityComment(remote[id], comment, SweepForceCheck, fetch2, post)
        visit == [activityId |-> id,
                  marked |-> HasInsightMarker(DescriptionOf(remote[id])),
                  hasInsight |-> hasInsight,
                  wrote |-> ~hasInsight /\ out.act # remote[id],
                  failed |-> ~hasInsight /\ ~out.ret]
        s1 == [sweep EXCEPT !.visited = Append(@, visit), !.idx = @ + 1]
        s2 == SweepCount(s1, hasInsight, out.ret)
    IN /\ sweep.pc = "loop"
       /\ sweep.idx <= Len(sweep.list)
       /\ IF hasInsight
          THEN /\ lastAdd' = NoAdd
               /\ UNCHANGED remote
          ELSE /\ remote' = [remote EXCEPT ![id] = out.act]
               /\ lastAdd' = AddRecord(id, comment, SweepForceCheck, remote[id],
                                        fetch2, out)
       /\ sweep' = SweepAdvance(s2, visit.failed)
       /\ UNCHANGED <<aux, enabled, columns, store, seq, edits, call, prev>>

(***************************************************************************)
(* The user edits a remote description, between two runs of the engine     *)
(***************************************************************************)
ExternalEdit(id, d) ==
    /\ EngineIdle
    /\ edits < MaxEdits
    /\ edits' = edits + 1
    /\ remote[id] # [descNull |-> FALSE, description |-> d]
    /\ remote' = [remote EXCEPT ![id] = [descNull |-> FALSE, description |-> d]]
    /\ call' = IdleCall
    /\ sweep' = IdleSweep
    /\ lastAdd' = NoAdd
    /\ UNCHANGED <<aux, enabled, columns, store, seq, prev>>

Next ==
    \/ \E a \in Activities, client \in BOOLEAN, fault \in BOOLEAN :
          ProcessStart(a, client, FALSE, fault)
    \/ \E a \in Activities, fault \in BOOLEAN : ProcessStart(a, TRUE, TRUE, fault)
    \/ \E r \in GenResults \cup {NullResult} : ProcessGenerate(r)
    \/ \E fault \in BOOLEAN : ProcessSave(fault)
    \/ \E fetch \in FetchOutcomes, post \in PostOutcomes : ProcessComment(fetch, post)
    \/ \E a \in Activities, fault \in BOOLEAN : RefreshDelete(a, fault)
    \/ \E fault \in BOOLEAN : SweepStart(fault)
    \/ \E f1 \in FetchOutcomes, f2 \in FetchOutcomes, post \in PostOutcomes :
          SweepItem(f1, f2, post)
    \/ \E id \in ActivityIds, d \in UserDescriptions : ExternalEdit(id, d)

Spec == Init /\ [][Next]_vars

(***************************************************************************)
(* Properties                                                              *)
(***************************************************************************)
\* the rows stored for an activity identifier
RowsOf(rows, id) == { i \in 1..Len(rows) : rows[i].activityId = id }

\* number of insight blocks in a description: the occurrences of the label
\* that the detector recognises (after the emoji, or before the parenthesis)
InsightBlocks(d) ==
    Cardinality({ i \in 1..Len(d) :
                    /\ d[i] = Label
                    /\ \/ HasAt(d, i - 2, EmojiMarker)
                       \/ HasAt(d, i, ParenMarker) })

\* the call at hand has returned
CallDone == call.pc = "done"

\* the call at hand left the store and the remote description as they were
CallWroteNothing ==
    /\ call.saves = 0
    /\ call.posts = 0
    /\ store = call.preStore
    /\ DescriptionOf(remote[call.activityId]) = call.preDescription

\* C1: a call with forceUpdate = false for an activity whose stringified
\* identifier already has a store record returns null without calling the
\* generation client, without writing the store and without writing the
\* remote description.
C1_SkipExistingRecord ==
    (CallDone /\ ~call.forceUpdate /\ call.hadRecord)
        => /\ call.ret = NullResult
           /\ call.gens = 0
           /\ CallWroteNothing

C1_Witness ==
    /\ CallDone /\ ~call.forceUpdate /\ call.hadRecord
    /\ enabled /\ ~call.fault /\ call.client
    /\ call.activityId = "100"

\* the second of two consecutive calls for the same identifier, both with
\* forceUpdate = false
SecondCall ==
    /\ CallDone
    /\ prev.valid
    /\ prev.activityId = call.activityId
    /\ ~prev.forceUpdate
    /\ ~call.forceUpdate

\* C2 as stated: two consecutive calls with forceUpdate = false for the same
\* identifier (feature enabled, no store fault, no record before the first
\* call) call the generation client exactly once in total, and the second
\* call is a skip with no generation call.
C2_GenerationExactlyOnce ==
    (SecondCall /\ enabled /\ ~prev.hadRecord /\ ~prev.fault /\ ~call.fault)
        => /\ prev.gens + call.gens = 1
           /\ call.gens = 0
           /\ call.ret = NullResult

\* C2 as amended: when the first of the two calls generated and stored a
\* result, the second call is a skip that makes no generation call and
\* writes nothing; generation ran once over the two calls.
C2_SecondCallSkips ==
    (SecondCall /\ ~prev.ret.isNull)
        => /\ prev.gens = 1
           /\ call.gens = 0
           /\ call.ret = NullResult
           /\ CallWroteNothing

C2_Witness ==
    /\ SecondCall /\ ~prev.ret.isNull
    /\ ~call.fault
    /\ call.hadRecord

\* C3: for an activity with no store record, forceUpdate = false, a client
\* supplied, generation succeeding (and the store and the remote service
\* working, the remote description holding no insight yet): generation is
\* attempted once, the store gains exactly one record keyed by the
\* stringified identifier, the store is written before the remote, and the
\* remote description gains exactly one appended insight block that carries
\* the model name and the confidence percentage.
C3_FirstInsight ==
    /\ (call.pc = "comment")
          => /\ call.saves = 1 /\ call.posts = 0
             /\ RowsOf(store, call.activityId) # {}
    /\ (call.posts > 0) => (call.saves = 1)
    /\ (/\ CallDone /\ ~call.forceUpdate /\ call.client /\ ~call.hadRecord
        /\ ~call.result.isNull /\ ~call.fault /\ call.commentOk
        /\ ~HasInsightMarker(call.preDescription))
          => LET id == call.activityId
                 d == DescriptionOf(remote[id])
                 tag == <<"(", call.result.model, ",", SP,
                          Percent(call.result.confidence), "% confidence):">>
             IN /\ call.gens = 1
                /\ call.ret = call.result
                /\ Len(store) = Len(call.preStore) + 1
                /\ Cardinality(RowsOf(store, id)) = 1
                /\ \A i \in RowsOf(store, id) : store[i].insight = call.result.insight
                /\ \A i \in 1..Len(call.preStore) : store[i] = call.preStore[i]
                /\ call.posts = 1
                /\ InsightBlocks(d) = 1
                /\ Len(d) > Len(call.preDescription)
                /\ SubSeq(d, 1, Len(call.preDescription)) = call.preDescription
                /\ Includes(d, tag)
                /\ SubSeq(d, Len(d) - Len(call.result.insight) + 1, Len(d))
                       = call.result.insight

C3_Witness ==
    /\ CallDone /\ ~call.forceUpdate /\ call.client /\ ~call.hadRecord
    /\ ~call.result.isNull /\ ~call.fault /\ call.commentOk
    /\ ~HasInsightMarker(call.preDescription)
    /\ call.activityId = "100"
    /\ call.posts = 1
    /\ call.preDescription # <<>>

\* C4: when the generation client returns null the call returns null and
\* writes neither the store nor the remote description.
C4_NullGeneration ==
    (CallDone /\ call.gens = 1 /\ call.result.isNull)
        => /\ call.ret = NullResult
           /\ CallWroteNothing

C4_Witness ==
    /\ CallDone /\ call.gens = 1 /\ call.result.isNull
    /\ call.client
    /\ call.preStore # <<>>

\* C5: when the remote comment upsert fails after a successful generation,
\* the store record written by the call stays, and the call still returns
\* the generated result.
C5_RemoteFailureKeepsRecord ==
    (CallDone /\ call.saves = 1 /\ call.client /\ ~call.commentOk)
        => /\ call.ret = call.result
           /\ ~call.ret.isNull
           /\ call.posts = 0
           /\ Cardinality(RowsOf(store, call.activityId)) = 1
           /\ \A i \in RowsOf(store, call.activityId) :
                 /\ store[i].insight = call.result.insight
                 /\ store[i].confidence = call.result.confidence
           /\ ~HasInsightMarker(call.preDescription)
                 => ~HasInsightMarker(DescriptionOf(remote[call.activityId]))

C5_Witness ==
    /\ CallDone /\ call.saves = 1 /\ call.client /\ ~call.commentOk
    /\ lastAdd.valid /\ ~lastAdd.ret
    /\ ~HasInsightMarker(DescriptionOf(remote[call.activityId]))

\* the records the sweep has visited so far
Visits == { i \in 1..Len(sweep.visited) : TRUE }

\* C6: during the sweep, a stored record whose remote description already
\* contains the insight marker gets no remote write, also when the first
\* marker check could not read the description.
C6_SweepNeverOverwrites ==
    \A i \in Visits : sweep.visited[i].marked => ~sweep.visited[i].wrote

C6_Witness ==
    /\ sweep.pc = "done"
    /\ \E i \in Visits :
          /\ sweep.visited[i].marked
          /\ ~sweep.visited[i].hasInsight
    /\ \E i \in Visits : sweep.visited[i].wrote

C36_CountersAddUp ==
    /\ sweep.pc = "loop"
         => sweep.syncedCount + sweep.skippedCount + sweep.errorCount = sweep.idx - 1
    /\ sweep.pc = "done"
         => sweep.syncedCount + sweep.skippedCount + sweep.errorCount
               = Len(sweep.list)

\* a sweep over two records has ended with one record skipped and one
\* failed
C36_Witness ==
    /\ sweep.pc = "done"
    /\ Len(sweep.list) = 2
    /\ sweep.skippedCount = 1
    /\ sweep.errorCount = 1
    /\ sweep.syncedCount = 0

\* C37: the number syncMissingInsightsToGarmin returns is the number of
\* activities whose remote description the sweep wrote, whatever failed on
\* the way.
C37_ReturnCountsWrites ==
    sweep.pc = "done"
      => sweep.ret = Cardinality({ i \in Visits : sweep.visited[i].wrote })

\* C38: after addActivityComment has returned true for a comment the engine
\* composed, hasActivityInsight finds the marker in the remote description,
\* so the sweep passes the activity over and a following upsert without
\* force returns true and writes nothing.
C38_WriterAndDetectorAgree ==
    (lastAdd.valid /\ lastAdd.ret)
      => LET act == remote[lastAdd.activityId]
         IN /\ HasActivityInsight(act, "ok")
            /\ \A post \in PostOutcomes :
                  LET out == AddActivityComment(act, lastAdd.comment, FALSE, "ok", post)
                  IN out.ret /\ ~out.wrote /\ out.act = act

\* addActivityComment wrote the engine's comment into a description that
\* held no marker, and returned true
C38_Witness ==
    /\ lastAdd.valid /\ lastAdd.ret /\ lastAdd.wrote
    /\ ~HasInsightMarker(lastAdd.before)
    /\ lastAdd.before # <<>>
    /\ HasInsightMarker(DescriptionOf(remote[lastAdd.activityId]))

\* C8: addActivityComment with forceCheck = false on a description that
\* contains the insight marker returns true and leaves the remote
\* description as it is.
C8_NonForceNoOp ==
    (lastAdd.valid /\ ~lastAdd.forceCheck /\ lastAdd.fetched
        /\ HasInsightMarker(lastAdd.before))
        => /\ lastAdd.ret
           /\ ~lastAdd.wrote
           /\ lastAdd.after = lastAdd.before
           /\ DescriptionOf(remote[lastAdd.activityId]) = lastAdd.before

C8_Witness ==
    /\ lastAdd.valid /\ ~lastAdd.forceCheck /\ lastAdd.fetched
    /\ HasInsightMarker(lastAdd.before)
    /\ CallDone /\ call.saves = 1

\* C9: after addActivityComment with forceCheck = true has written over a
\* description that already held an insight, the remote description holds
\* exactly one insight block.
C9_ForceReplaceSingleBlock ==
    (lastAdd.valid /\ lastAdd.forceCheck /\ lastAdd.wrote
        /\ HasInsightMarker(lastAdd.before))
        => InsightBlocks(lastAdd.after) = 1

\* what is left of a description when every block that begins at a marker of
\* the detector (with the divider in front of it, when there is one) and ends
\* before the next divider is cut out
RECURSIVE OutsideBlocks(_, _)
OutsideBlocks(s, i) ==
    IF i > Len(s) THEN <<>>
    ELSE IF \E m \in {EmojiMarker, ParenMarker} : HasAt(s, i, Separator \o m)
         THEN OutsideBlocks(s, BlockEnd(s, i + Len(Separator) + 1))
    ELSE IF \E m \in {EmojiMarker, ParenMarker} : HasAt(s, i, m)
         THEN OutsideBlocks(s, BlockEnd(s, i + 1))
    ELSE <<s[i]>> \o OutsideBlocks(s, i + 1)

\* the tokens of a occur in b, in the same order
RECURSIVE IsSubsequence(_, _)
IsSubsequence(a, b) ==
    IF a = <<>> THEN TRUE
    ELSE IF b = <<>> THEN FALSE
    ELSE IF Head(a) = Head(b) THEN IsSubsequence(Tail(a), Tail(b))
    ELSE IsSubsequence(a, Tail(b))

\* C39: in force mode, on every description in which the marker check finds
\* an insight, the removal step leaves a text in which the same check finds
\* none, and what stood outside the insight blocks is still there (but for
\* the white space that trim takes from the ends).
C39_RemoverMatchesDetector ==
    (lastAdd.valid /\ lastAdd.forceCheck /\ lastAdd.fetched
        /\ HasInsightMarker(lastAdd.before))
      => LET cleaned == Trim(RemoveInsights(lastAdd.before))
         IN /\ ~HasInsightMarker(cleaned)
            /\ IsSubsequence(Trim(OutsideBlocks(lastAdd.before, 1)), cleaned)

\* C10: when the current description holds no insight marker, the
\* description written is the existing description, the divider and the
\* comment when the existing description is not empty, and the comment alone
\* when it is empty.
C10_AppendKeepsPrefix ==
    (lastAdd.valid /\ lastAdd.wrote /\ ~HasInsightMarker(lastAdd.before))
        => /\ lastAdd.after
                = IF lastAdd.before # <<>>
                  THEN lastAdd.before \o <<NL, NL, "---", NL, NL>> \o lastAdd.comment
                  ELSE lastAdd.comment
           /\ DescriptionOf(remote[lastAdd.activityId]) = lastAdd.after

C10_Witness ==
    /\ lastAdd.valid /\ lastAdd.wrote /\ ~HasInsightMarker(lastAdd.before)
    /\ lastAdd.before = <<SP>>

\* C11: addActivityComment never raises.  A failed fetch (getActivity rejects),
\* a missing activity (getActivity resolves to nothing) and a failed write all
\* come back as the boolean false with the remote description untouched; true
\* comes back exactly when the description was written or the non-force
\* no-op applied (insight already present, forceCheck false).
C11_AddCommentNeverRaises ==
    lastAdd.valid =>
        LET noop == /\ lastAdd.fetched /\ ~lastAdd.forceCheck
                    /\ HasInsightMarker(lastAdd.before)
        IN /\ ~lastAdd.raised
           /\ lastAdd.fetch \in {"throw", "null"}
                 => ~lastAdd.ret /\ ~lastAdd.wrote
           /\ (lastAdd.fetched /\ ~noop /\ ~lastAdd.wrote) => ~lastAdd.ret
           /\ lastAdd.ret <=> (lastAdd.wrote \/ noop)
           /\ ~lastAdd.wrote => lastAdd.after = lastAdd.before

\* getActivity rejected inside addActivityComment and false came back
C11_Witness ==
    /\ lastAdd.valid /\ lastAdd.fetch = "throw"
    /\ ~lastAdd.ret /\ ~lastAdd.raised

(***************************************************************************)
(* The process ends and the next run starts under another configuration:   *)
(* AI_INSIGHTS_ENABLED and GEMINI_API_KEY are read from the environment    *)
(* when the module is loaded, while the database file and the remote       *)
(* descriptions outlive the process.                                       *)
(***************************************************************************)
Restart ==
    /\ EngineIdle
    /\ enabled' = ~enabled
    /\ call' = IdleCall
    /\ prev' = NoPrev
    /\ sweep' = IdleSweep
    /\ lastAdd' = NoAdd
    /\ UNCHANGED <<aux, columns, store, seq, remote, edits>>

NextRestart ==
    \/ Next
    \/ Restart

SpecRestart == Init /\ [][NextRestart]_vars

\* C12: while the feature is disabled (flag off or credential missing) every
\* entry point is inert: a processActivityWithInsights call returns null and
\* a syncMissingInsightsToGarmin sweep that returns, returns 0; nothing is
\* generated, no record is written to the store and no remote description
\* is written.
C12_DisabledIsInert ==
    ~enabled =>
        /\ call.pc \in {"idle", "done"}
        /\ call.pc = "done" => call.ret.isNull /\ CallWroteNothing
        /\ sweep.pc = "done" => sweep.ret = 0
        /\ \A i \in 1..Len(sweep.visited) : ~sweep.visited[i].wrote
        /\ lastAdd.valid => ~lastAdd.wrote

(***************************************************************************)
(* parseConfidence on its own: every text of ModelTexts is parsed once     *)
(***************************************************************************)
\* the strings of the class [0-9.], up to MaxNumLen characters
NumStrings == UNION {[1..n -> NumChars] : n \in 1..MaxNumLen}

\* what the model's text holds before its last tag: plain text, text that
\* ends in white space, text that carries a tag of its own, nothing
Rests ==
    {<<"Good", SP, "run.">>,
     <<"Good", SP, "run.", SP>>,
     <<"Pace", SP, "[CONFIDENCE:", SP, "0", ".", "5", "]", SP, "held.", SP>>,
     <<>>}

\* the text made of rest and of the tag [CONFIDENCE: x], x = <<>> for no tag
TextOf(rest, open, space, x) ==
    IF x = <<>> THEN rest ELSE rest \o <<open>> \o space \o x \o <<TagClose>>

\* the engine is at rest: no record stored, untouched remote, nothing running
EngineAtRest ==
    /\ store = <<>>
    /\ seq = 0
    /\ remote = [id \in ActivityIds |-> [descNull |-> TRUE, description |-> <<>>]]
    /\ edits = 0
    /\ call = IdleCall
    /\ prev = NoPrev
    /\ sweep = IdleSweep
    /\ lastAdd = NoAdd

InitParse ==
    /\ enabled = TRUE
    /\ columns = {}
    /\ EngineAtRest
    /\ gen = IdleGen
    /\ hist = NoHist
    /\ ctx = NoContext
    /\ batch = IdleBatch
    /\ gate = IdleGate
    /\ prompt = NoPrompt
    /\ upsert = NoUpsert
    /\ \E rest \in Rests, open \in TagOpens, space \in {<<>>, <<SP>>},
          x \in NumStrings \cup {<<>>, <<"high">>} :
          parse = [NoParse EXCEPT !.text = TextOf(rest, open, space, x),
                                  !.rest = rest, !.x = x]

\* const { insight, confidence } = parseConfidence(text)
Parse ==
    /\ ~parse.done
    /\ LET r == ParseConfidence(parse.text)
       IN parse' = [parse EXCEPT !.done = TRUE, !.insight = r.insight,
                                 !.confidence = r.confidence]
    /\ UNCHANGED <<enabled, columns, store, seq, remote, edits, call, prev, sweep,
                   lastAdd, gen, hist, ctx, batch, gate, prompt, upsert>>

SpecParse == InitParse /\ [][Parse]_vars

\* two decimals are the same number
SameNumber(a, b) == ~a.nan /\ ~b.nan /\ a.num * b.den = b.num * a.den

\* x is a decimal numeral: digits, or digits, a dot and digits
IsNumeral(x) ==
    /\ x # <<>>
    /\ \A i \in 1..Len(x) : x[i] \in NumChars
    /\ x[1] \in Digits /\ x[Len(x)] \in Digits
    /\ Cardinality({i \in 1..Len(x) : x[i] = "."}) <= 1

\* C16: the confidence parseConfidence returns, which generateActivityInsights
\* returns and processActivityWithInsights stores, lies in [0.0, 1.0] for every
\* text of the model: a tag whose value exceeds 1, and a tag whose string of
\* digits and dots is not a number, included.
C16_ConfidenceInUnitInterval ==
    parse.done =>
        /\ ~parse.confidence.nan
        /\ 0 <= parse.confidence.num
        /\ parse.confidence.num <= parse.confidence.den

\* C17: for a text that ends in the tag [CONFIDENCE: x], x a number of
\* [0.0, 1.0], parseConfidence returns the confidence x and the text without
\* the tag; for a text that holds no tag it returns the confidence 0.7 and
\* the text unchanged.
C17_ParseTrailingTag ==
    parse.done =>
        /\ (IsNumeral(parse.x) /\ ParseFloat(parse.x).num <= ParseFloat(parse.x).den)
              => /\ SameNumber(parse.confidence, ParseFloat(parse.x))
                 /\ parse.insight = Trim(parse.rest)
        /\ (\A i \in 1..Len(parse.text) : parse.text[i] \notin TagOpens)
              => /\ parse.confidence = DefaultConfidence
                 /\ parse.insight = parse.text

(***************************************************************************)
(* generateActivityInsights on its own: the retry loop, waitForRateLimit   *)
(* and the clock.  Times are in milliseconds.                              *)
(***************************************************************************)
MaxInvocations == 2

\* time that passes between two invocations, and while the provider answers
Elapsed == {0, 500, 1000}

\* time by which a timer fires after its delay has passed
Late == {0, 500}

\* the provider's RetryInfo.retryDelay, a duration in whole seconds ("1s");
\* the empty string when the error carries none
RetryHints == {<<>>, <<"s">>, <<"0", "s">>, <<"1", "s">>}

\* what model.generateContent does: a text, a rate-limit error (status 429)
\* with or without a retry hint, any other error
ResponseTexts ==
    {<<"Good", SP, "run.", SP, "[CONFIDENCE:", SP, "0", ".", "8", "]">>,
     <<NL, "Good", SP, "run.", NL>>,
     <<"Good", SP, "run.", SP, "[CONFIDENCE:", SP, "5", "]", NL>>}

GenOutcomes ==
    {[kind |-> "ok", text |-> t, hint |-> <<>>] : t \in ResponseTexts}
    \cup {[kind |-> "rate", text |-> <<>>, hint |-> h] : h \in RetryHints}
    \cup {[kind |-> "error", text |-> <<>>, hint |-> <<>>]}

\* null, as generateActivityInsights returns it
NullGenerated == [isNull |-> TRUE, insight |-> <<>>, model |-> "", confidence |-> NaN]

RECURSIVE Pow2(_)
Pow2(n) == IF n = 0 THEN 1 ELSE 2 * Pow2(n - 1)

\* faulty variant of ShouldRetry: a rate-limited last attempt sleeps as well
ShouldRetryPastLast(isRateLimited, attempt) == isRateLimited

\* faulty variant of ShouldRetry: every failure is retried
ShouldRetryAnyError(isRateLimited, attempt) == attempt < MAX_RETRIES

\* the catch clause's test: isRateLimited && attempt < MAX_RETRIES
ShouldRetry(isRateLimited, attempt) == isRateLimited /\ attempt < MAX_RETRIES

\* retryInfo.retryDelay.match(/(\d+)/): the leftmost run of digits, the empty
\* string when there is none
FirstDigits(s) ==
    LET starts == {i \in 1..Len(s) : s[i] \in Digits}
    IN IF starts = {} THEN <<>>
       ELSE LET i == CHOOSE i \in starts : \A k \in starts : i <= k
            IN SubSeq(s, i, RunEnd(s, i, Digits) - 1)

\* faulty variant of RetryDelay: the provider's hint is not looked at
RetryDelayBackoffOnly(attempt, hint) == BASE_DELAY_MS * Pow2(attempt - 1)

\* the delay before the next attempt: the provider's hint, parseInt of its
\* digits times 1000, when the error carries one; BASE_DELAY_MS *
\* 2^(attempt - 1) otherwise
RetryDelay(attempt, hint) ==
    LET match == FirstDigits(hint)
    IN IF match # <<>> THEN DigitsValue(match) * 1000
       ELSE BASE_DELAY_MS * Pow2(attempt - 1)

\* waitForRateLimit is left at time t (lastRequestTime = Date.now()) and the
\* external call starts
CallStarted(g, t) ==
    [g EXCEPT !.pc = "calling", !.now = t, !.lastRequestTime = t,
              !.calls = @ + 1, !.prevCallAt = g.lastCallAt, !.lastCallAt = t]

\* generateActivityInsights returns null
GenReturnsNull(g) == [g EXCEPT !.pc = "done", !.ret = NullGenerated]

\* generateActivityInsights is called: the enabled test, then attempt = 1
GenStart(elapsed) ==
    /\ gen.pc \in {"idle", "done"}
    /\ gen.invocations < MaxInvocations
    /\ LET g == [gen EXCEPT !.invocations = @ + 1, !.now = @ + elapsed,
                            !.attempt = 0, !.calls = 0, !.sleeps = 0,
                            !.waitTime = 0, !.retryDelay = 0, !.hint = <<>>,
                            !.outcomes = <<>>, !.ret = NullGenerated]
       IN gen' = IF ~enabled THEN GenReturnsNull(g)
                 ELSE [g EXCEPT !.pc = "gate", !.attempt = 1]
    /\ UNCHANGED <<enabled, columns, store, seq, remote, edits, call, prev, sweep,
                   lastAdd, parse, hist, ctx, batch, gate, prompt, upsert>>

\* faulty variant of GenGate: the gate never waits
GenGateOpen ==
    /\ gen.pc = "gate"
    /\ gen' = CallStarted(gen, gen.now)
    /\ UNCHANGED <<enabled, columns, store, seq, remote, edits, call, prev, sweep,
                   lastAdd, parse, hist, ctx, batch, gate, prompt, upsert>>

\* waitForRateLimit up to its await: too early, it sets the timer; otherwise
\* it is left at once
GenGate ==
    /\ gen.pc = "gate"
    /\ LET timeSinceLastRequest == gen.now - gen.lastRequestTime
       IN gen' = IF timeSinceLastRequest < MIN_REQUEST_INTERVAL_MS
                 THEN [gen EXCEPT !.pc = "waiting",
                          !.waitTime = MIN_REQUEST_INTERVAL_MS - timeSinceLastRequest]
                 ELSE CallStarted(gen, gen.now)
    /\ UNCHANGED <<enabled, columns, store, seq, remote, edits, call, prev, sweep,
                   lastAdd, parse, hist, ctx, batch, gate, prompt, upsert>>

\* the timer of waitForRateLimit fires
GenWake(late) ==
    /\ gen.pc = "waiting"
    /\ gen' = CallStarted(gen, gen.now + gen.waitTime + late)
    /\ UNCHANGED <<enabled, columns, store, seq, remote, edits, call, prev, sweep,
                   lastAdd, parse, hist, ctx, batch, gate, prompt, upsert>>

\* model.generateContent settles: the parsed result is returned, or the catch
\* clause sleeps before the next attempt, or it returns null
GenRespond(outcome, duration) ==
    /\ gen.pc = "calling"
    /\ LET g == [gen EXCEPT !.now = @ + duration,
                            !.outcomes = Append(@, outcome.kind)]
           parsed == ParseConfidence(Trim(outcome.text))
       IN gen' = IF outcome.kind = "ok"
                 THEN [g EXCEPT !.pc = "done",
                                !.ret = [isNull |-> FALSE, insight |-> parsed.insight,
                                         model |-> GEMINI_MODEL,
                                         confidence |-> parsed.confidence]]
                 ELSE IF ShouldRetry(outcome.kind = "rate", gen.attempt)
                 THEN [g EXCEPT !.pc = "sleeping", !.hint = outcome.hint,
                                !.retryDelay = RetryDelay(gen.attempt, outcome.hint)]
                 ELSE GenReturnsNull(g)
    /\ UNCHANGED <<enabled, columns, store, seq, remote, edits, call, prev, sweep,
                   lastAdd, parse, hist, ctx, batch, gate, prompt, upsert>>

\* sleep(retryDelay) is over; continue: attempt++ and the loop test
GenSleep(late) ==
    /\ gen.pc = "sleeping"
    /\ LET g == [gen EXCEPT !.now = @ + gen.retryDelay + late, !.sleeps = @ + 1,
                            !.attempt = @ + 1]
       IN gen' = IF g.attempt <= MAX_RETRIES THEN [g EXCEPT !.pc = "gate"]
                 ELSE GenReturnsNull(g)
    /\ UNCHANGED <<enabled, columns, store, seq, remote, edits, call, prev, sweep,
                   lastAdd, parse, hist, ctx, batch, gate, prompt, upsert>>

InitGen ==
    /\ enabled \in BOOLEAN
    /\ columns = {}
    /\ EngineAtRest
    /\ gen = IdleGen
    /\ parse = NoParse
    /\ hist = NoHist
    /\ ctx = NoContext
    /\ batch = IdleBatch
    /\ gate = IdleGate
    /\ prompt = NoPrompt
    /\ upsert = NoUpsert

NextGen ==
    \/ \E elapsed \in Elapsed : GenStart(elapsed)
    \/ GenGate
    \/ \E late \in Late : GenWake(late)
    \/ \E outcome \in GenOutcomes, duration \in Elapsed : GenRespond(outcome, duration)
    \/ \E late \in Late : GenSleep(late)

SpecGen == InitGen /\ [][NextGen]_vars

\* the invocation of generateActivityInsights has returned
GenDone == gen.pc = "done" /\ gen.invocations > 0

\* C13: generateActivityInsights retries only after a rate-limited failure and
\* makes MAX_RETRIES (3) external calls at most; when every attempt is rate
\* limited it returns null after the last attempt, without sleeping again
\* (two sleeps for three calls).
C13_RetryOnlyRateLimited ==
    /\ gen.calls <= MAX_RETRIES
    /\ gen.sleeps <= 2
    /\ \A i \in 1..Len(gen.outcomes) :
          i < gen.calls => gen.outcomes[i] = "rate"
    /\ (/\ Len(gen.outcomes) = MAX_RETRIES
        /\ \A i \in 1..MAX_RETRIES : gen.outcomes[i] = "rate")
          => /\ gen.pc = "done"
             /\ gen.ret.isNull
             /\ gen.calls = 3
             /\ gen.sleeps = 2

\* all three attempts were rate limited and null came back
C13_Witness ==
    /\ GenDone /\ gen.ret.isNull
    /\ gen.outcomes = <<"rate", "rate", "rate">>
    /\ gen.calls = 3 /\ gen.sleeps = 2

\* C14: a failure that is not a rate limit, on whichever attempt, makes
\* generateActivityInsights return null at once: it is the last outcome of
\* the invocation, no external call and no sleep follows it.
C14_OtherFailureReturnsNull ==
    \A i \in 1..Len(gen.outcomes) :
        gen.outcomes[i] = "error"
          => /\ i = Len(gen.outcomes)
             /\ gen.calls = i
             /\ gen.sleeps = i - 1
             /\ gen.pc = "done"
             /\ gen.ret.isNull

\* the second attempt failed for another reason than a rate limit
C14_Witness ==
    /\ GenDone /\ gen.ret.isNull
    /\ gen.outcomes = <<"rate", "error">>
    /\ gen.calls = 2

\* C15: two consecutive external generation calls, retries of one invocation
\* and calls of different invocations alike, start MIN_REQUEST_INTERVAL_MS
\* (1000 ms) apart at least.
C15_MinRequestInterval ==
    gen.prevCallAt >= 0
      => gen.lastCallAt - gen.prevCallAt >= 1000

\* a retry started exactly 1000 ms after the call it follows: the provider's
\* hint asked for no delay and the gate made up for it
C15_Witness ==
    /\ gen.pc = "calling" /\ gen.attempt = 2
    /\ gen.prevCallAt >= 0
    /\ gen.lastCallAt - gen.prevCallAt = MIN_REQUEST_INTERVAL_MS

\* the seconds a provider's retry delay stands for
HintSeconds(hint) ==
    CASE hint = <<"0", "s">> -> 0
      [] hint = <<"1", "s">> -> 1
      [] OTHER -> -1

C34_HintObeyed ==
    /\ gen.pc = "sleeping" /\ gen.attempt = 2
    /\ gen.hint = <<"1", "s">> /\ gen.retryDelay = 1000

(***************************************************************************)
(* The insight store on its own (utils/sqlite.ts): initAIInsightsTable,    *)
(* saveAIInsight and getAllAIInsights in any order                         *)
(***************************************************************************)
MaxStoreSaves == 4

\* the tables initAIInsightsTable may find: none, the full schema, and the
\* older schemas
TableStates == {{}, FullSchema, OldSchema, OldSchemaWithCreatedAt}

\* the records saveAIInsight is called with
SaveData ==
    {[activityId |-> id, activityName |-> name, insight |-> r.insight,
      model |-> r.model, confidence |-> r.confidence] :
        id \in ActivityIds, name \in {"Morning Run", "Evening Run"},
        r \in GenResults}

InitStore ==
    /\ enabled = TRUE
    /\ columns \in TableStates
    /\ EngineAtRest
    /\ gen = IdleGen
    /\ parse = NoParse
    /\ hist = NoHist
    /\ ctx = NoContext
    /\ batch = IdleBatch
    /\ gate = IdleGate
    /\ prompt = NoPrompt
    /\ upsert = NoUpsert

\* initAIInsightsTable
StoreInit ==
    /\ columns' = InitAIInsightsTable(columns)
    /\ hist' = [hist EXCEPT !.listed = FALSE, !.listing = <<>>,
                            !.init = [valid |-> TRUE, before |-> columns,
                                      rows |-> store,
                                      threw |-> InitAIInsightsTableThrows(columns),
                                      again |-> hist.init.valid /\ ~hist.init.threw]]
    /\ UNCHANGED <<enabled, store, seq, remote, edits, call, prev, sweep, lastAdd,
                   gen, parse, ctx, batch, gate, prompt, upsert>>

\* saveAIInsight(data), on a table that has every column the INSERT names
StoreSave(data) ==
    /\ FullSchema \subseteq columns
    /\ seq < MaxStoreSaves
    /\ store' = SaveAIInsight(store, seq, data)
    /\ seq' = seq + 1
    /\ hist' = [hist EXCEPT !.saves = @ + 1,
                            !.last[data.activityId] = data,
                            !.at[data.activityId] = hist.saves + 1,
                            !.count[data.activityId] = @ + 1,
                            !.listed = FALSE, !.listing = <<>>,
                            !.init = NoHist.init]
    /\ UNCHANGED <<enabled, columns, remote, edits, call, prev, sweep, lastAdd,
                   gen, parse, ctx, batch, gate, prompt, upsert>>

\* getAllAIInsights
StoreList ==
    /\ FullSchema \subseteq columns
    /\ ~hist.listed
    /\ hist' = [hist EXCEPT !.listed = TRUE, !.listing = GetAllAIInsights(store),
                            !.init = NoHist.init]
    /\ UNCHANGED <<enabled, columns, store, seq, remote, edits, call, prev, sweep,
                   lastAdd, gen, parse, ctx, batch, gate, prompt, upsert>>

NextStore ==
    \/ StoreInit
    \/ \E data \in SaveData : StoreSave(data)
    \/ StoreList

SpecStore == InitStore /\ [][NextStore]_vars

\* the positions of the rows of activity id
RowPositions(rows, id) == {i \in 1..Len(rows) : rows[i].activityId = id}

\* C18: after any sequence of saveAIInsight calls the store holds one record
\* at most per activity id, and the record of an id equals, in every field
\* saveAIInsight is given, the data of the last call for that id: no field of
\* an earlier record survives.
C18_LastWriteWins ==
    \A id \in ActivityIds :
        /\ Cardinality(RowPositions(store, id)) <= 1
        /\ hist.at[id] = 0 => RowPositions(store, id) = {}
        /\ hist.at[id] > 0 =>
              \E i \in RowPositions(store, id) :
                  /\ store[i].activityId = hist.last[id].activityId
                  /\ store[i].activityName = hist.last[id].activityName
                  /\ store[i].insight = hist.last[id].insight
                  /\ store[i].model = hist.last[id].model
                  /\ store[i].confidence = hist.last[id].confidence

\* the record of activity 100 was written, then one for activity 200, then
\* the record of activity 100 was replaced
C18_Witness ==
    /\ hist.saves = 3
    /\ hist.count["100"] = 2
    /\ hist.at["100"] = 3 /\ hist.at["200"] = 2
    /\ hist.last["100"].activityName = "Evening Run"
    /\ hist.last["100"].confidence = 70
    /\ Len(store) = 2

\* C19: getAllAIInsights lists the records by the time they were written,
\* latest first, after any inserts and replacements: every stored id is
\* listed once, and a record is listed before every record written earlier,
\* so a replaced record comes before all records written before its
\* replacement.
C19_NewestFirst ==
    hist.listed =>
        /\ \A id \in ActivityIds :
              Cardinality(RowPositions(hist.listing, id))
                  = IF hist.at[id] > 0 THEN 1 ELSE 0
        /\ \A i, j \in 1..Len(hist.listing) :
              i < j => hist.at[hist.listing[i].activityId]
                         > hist.at[hist.listing[j].activityId]

\* activity 100 was saved first and replaced last: it is listed before
\* activity 200
C19_Witness ==
    /\ hist.listed
    /\ hist.saves = 3
    /\ hist.count["100"] = 2
    /\ hist.at["100"] = 3 /\ hist.at["200"] = 2
    /\ Len(hist.listing) = 2
    /\ hist.listing[1].activityId = "100"

\* C20: initAIInsightsTable is idempotent and additive, whether the table is
\* absent, has the full schema or an older one: it never errors, it adds no
\* column that exists and removes none, it leaves every row as it is, and a
\* second invocation changes nothing.
C20_InitIdempotentAdditive ==
    hist.init.valid =>
        /\ ~hist.init.threw
        /\ hist.init.before \subseteq columns
        /\ columns \subseteq hist.init.before \cup FullSchema
        /\ store = hist.init.rows
        /\ hist.init.again => columns = hist.init.before

(***************************************************************************)
(* getHistoricalContext and formatHistoricalSection on their own: a        *)
(* current activity, a list of activities built one by one, then the       *)
(* context and the trend section                                           *)
(***************************************************************************)
MaxCandidates == 8
MaxMixed == 3

Activity(id, typeKey, day, hour, averageSpeed, distance, averageHR) ==
    [activityId |-> id, typeKey |-> typeKey, day |-> day, hour |-> hour,
     averageSpeed |-> averageSpeed, distance |-> distance,
     averageHR |-> averageHR]

StrId(v) == [kind |-> "str", v |-> v]
NumId(v) == [kind |-> "num", v |-> v]

\* the current activity: on day 10, with all metrics or with none
CurrentActivities ==
    {Activity(StrId("100"), "running", 10, 12, Num(4, 1), Num(5000, 1), Num(150, 1)),
     Activity(NumId(100), "running", 10, 6, Num(0, 1), Undefined, Undefined)}

\* copies of the current activity under the other identifier type, and
\* another activity of the day before
IdentityPool ==
    {Activity(NumId(100), "running", 9, 12, Num(4, 1), Num(5000, 1), Num(150, 1)),
     Activity(StrId("100"), "running", 3, 12, Num(4, 1), Num(5000, 1), Num(150, 1)),
     Activity(StrId("200"), "running", 9, 12, Num(5, 1), Num(6000, 1), Num(140, 1))}

\* activities eight, seven and six days before the current one, early and
\* late in the day, and one of another type
WeekPool ==
    {Activity(StrId("200"), "running", 2, 6, Num(5, 1), Num(6000, 1), Num(140, 1)),
     Activity(StrId("300"), "running", 4, 18, Num(5, 1), Num(6000, 1), Num(140, 1)),
     Activity(StrId("400"), "running", 3, 12, Num(5, 1), Num(6000, 1), Num(140, 1)),
     Activity(StrId("500"), "cycling", 3, 12, Num(8, 1), Num(20000, 1), Num(130, 1))}

\* earlier activities whose metrics are zero, missing, or present
MetricsPool ==
    {Activity(StrId("200"), "running", 9, 6, Num(0, 1), Num(0, 1), Num(0, 1)),
     Activity(StrId("300"), "running", 8, 6, Undefined, Undefined, Undefined),
     Activity(StrId("400"), "running", 3, 12, Num(5, 1), Num(8000, 1), Num(140, 1))}

\* two earlier activities, for lists longer than the recent limit
BulkPool ==
    {Activity(StrId("200"), "running", 9, 6, Num(5, 1), Num(6000, 1), Num(140, 1)),
     Activity(StrId("300"), "running", 5, 6, Undefined, Num(3000, 1), Undefined)}

CandidatePools ==
    {[members |-> IdentityPool, maxLen |-> MaxMixed],
     [members |-> WeekPool, maxLen |-> MaxMixed],
     [members |-> MetricsPool, maxLen |-> MaxMixed],
     [members |-> BulkPool, maxLen |-> MaxCandidates]}

\* hours by which the process's local time is ahead of UTC
TimeZones == {0, 8}

InitContext ==
    /\ enabled = TRUE
    /\ columns = {}
    /\ EngineAtRest
    /\ gen = IdleGen
    /\ parse = NoParse
    /\ hist = NoHist
    /\ batch = IdleBatch
    /\ gate = IdleGate
    /\ prompt = NoPrompt
    /\ upsert = NoUpsert
    /\ \E c \in CurrentActivities, p \in CandidatePools, tz \in TimeZones :
          ctx = [NoContext EXCEPT !.pc = "collect", !.currentActivity = c,
                                  !.pool = p.members, !.maxLen = p.maxLen,
                                  !.tz = tz]

\* one more activity in allActivities
ContextAdd(a) ==
    /\ ctx.pc = "collect"
    /\ a \in ctx.pool
    /\ Len(ctx.allActivities) < ctx.maxLen
    /\ ctx' = [ctx EXCEPT !.allActivities = Append(@, a)]
    /\ UNCHANGED <<enabled, columns, store, seq, remote, edits, call, prev, sweep,
                   lastAdd, gen, parse, hist, batch, gate, prompt, upsert>>

\* getHistoricalContext(activity, allActivities), then formatHistoricalSection
ContextBuild ==
    /\ ctx.pc = "collect"
    /\ LET context == GetHistoricalContext(ctx.currentActivity, ctx.allActivities,
                                           ctx.tz)
       IN ctx' = [ctx EXCEPT !.pc = "built", !.context = context,
                             !.lines = FormatHistoricalSection(context,
                                           ctx.currentActivity, ctx.allActivities)]
    /\ UNCHANGED <<enabled, columns, store, seq, remote, edits, call, prev, sweep,
                   lastAdd, gen, parse, hist, batch, gate, prompt, upsert>>

NextContext ==
    \/ \E a \in IdentityPool \cup WeekPool \cup MetricsPool \cup BulkPool :
          ContextAdd(a)
    \/ ContextBuild

SpecContext == InitContext /\ [][NextContext]_vars

\* the context has been built
Built == ctx.pc = "built"

\* the position i of allActivities holds the current activity: the
\* identifiers are equal as strings
IsCurrent(i) ==
    StringOf(ctx.allActivities[i].activityId)
        = StringOf(ctx.currentActivity.activityId)

\* the positions of the candidates: same type, not the current activity
Candidates ==
    {i \in 1..Len(ctx.allActivities) :
        ctx.allActivities[i].typeKey = ctx.currentActivity.typeKey /\ ~IsCurrent(i)}

\* C21: getHistoricalContext never puts the current activity into
\* yesterdayActivity, lastWeekActivity or recentActivities; two identifiers
\* are the same when their strings are (the number 100 and the string "100").
C21_CurrentExcluded ==
    Built =>
        /\ ctx.context.yesterdayActivity # 0
              => ~IsCurrent(ctx.context.yesterdayActivity)
        /\ ctx.context.lastWeekActivity # 0
              => ~IsCurrent(ctx.context.lastWeekActivity)
        /\ \A k \in 1..Len(ctx.context.recentActivities) :
              ~IsCurrent(ctx.context.recentActivities[k])

\* the list starts with a copy of the current activity ("100") under the
\* numeric identifier 100, dated the day before; the activity found for
\* yesterday is the other one
C21_Witness ==
    /\ Built
    /\ ctx.currentActivity.activityId = StrId("100")
    /\ Len(ctx.allActivities) >= 2
    /\ ctx.allActivities[1].activityId = NumId(100)
    /\ ctx.allActivities[1].day = 9
    /\ ctx.context.yesterdayActivity > 1

\* C22: recentActivities is the candidates of the current activity's type
\* that started strictly before it, latest first, cut to the first 7: every
\* entry is such a candidate, none is listed twice, the timestamps never
\* increase, the length is the smaller of 7 and the number of such
\* candidates, and no candidate left out is later than one listed.
C22_RecentActivities ==
    Built =>
        LET r == ctx.context.recentActivities
            earlier == {i \in Candidates :
                          Timestamp(ctx.allActivities[i])
                              < Timestamp(ctx.currentActivity)}
            listed == {r[k] : k \in 1..Len(r)}
        IN /\ listed \subseteq earlier
           /\ Cardinality(listed) = Len(r)
           /\ Len(r) = IF Cardinality(earlier) < 7 THEN Cardinality(earlier) ELSE 7
           /\ \A k \in 1..(Len(r) - 1) :
                 Timestamp(ctx.allActivities[r[k]])
                     >= Timestamp(ctx.allActivities[r[k + 1]])
           /\ \A i \in earlier \ listed : \A k \in listed :
                 Timestamp(ctx.allActivities[i]) <= Timestamp(ctx.allActivities[k])

\* eight earlier candidates of two different days, the later day last in
\* the list: seven are listed
C22_Witness ==
    /\ Built
    /\ Len(ctx.allActivities) = 8
    /\ Len(ctx.context.recentActivities) = 7
    /\ ctx.allActivities[1].day = 5
    /\ ctx.allActivities[8].day = 9
    /\ ctx.context.recentActivities[1] = 8

\* C23: lastWeekActivity is the first candidate, in the order of the list,
\* whose civil date lies between the current activity's date minus 8 days
\* and its date minus 6 days, both included, whatever the time of day of
\* the candidate.
C23_LastWeekByDate ==
    Built =>
        ctx.context.lastWeekActivity
            = Find({i \in Candidates :
                      /\ ctx.allActivities[i].day >= ctx.currentActivity.day - 8
                      /\ ctx.allActivities[i].day <= ctx.currentActivity.day - 6})

\* C24: formatTrendComparison gives no line when previous is 0 or undefined
\* or current is undefined, and no line of the trend section renders NaN or
\* an infinity, also when the average is taken over no activity at all.
C24_NoNaNInTrends ==
    Built =>
        \A k \in 1..Len(ctx.lines) :
            /\ ctx.lines[k].current.kind = "number"
            /\ ctx.lines[k].previous.kind = "number"
            /\ ctx.lines[k].previous.n # 0
            /\ ctx.lines[k].diff.kind = "number"
            /\ ctx.lines[k].percentChange.kind = "number"

\* the current activity has a heart rate, the recent activities have none
\* (one reports 0, one reports nothing): the average is 0 / 0 and the
\* section has no heart-rate line against the average
C24_Witness ==
    /\ Built
    /\ Truthy(ctx.currentActivity.averageHR)
    /\ Len(ctx.context.recentActivities) = 2
    /\ \A k \in 1..2 :
          ~Truthy(ctx.allActivities[ctx.context.recentActivities[k]].averageHR)
    /\ \E k \in 1..2 :
          ctx.allActivities[ctx.context.recentActivities[k]].averageHR = Num(0, 1)
    /\ \A k \in 1..Len(ctx.lines) : ctx.lines[k].metric # <<"average", "Avg HR">>

(***************************************************************************)
(* Reconciliation states of an activity                                    *)
(***************************************************************************)
\* the store holds a record for the identifier
Stored(id) == RowsOf(store, id) # {}

\* the remote description of the identifier carries the insight marker
Marked(id) == HasInsightMarker(DescriptionOf(remote[id]))

\* C25: while no user edits a description, whenever the engine is at rest
\* every activity is NoInsight, LocalOnly or LocalAndRemote: a remote
\* description that carries an insight written by the engine has its record
\* in the local store.
C25_RemoteInsightHasRecord ==
    (edits = 0 /\ EngineIdle) => \A id \in ActivityIds : Marked(id) => Stored(id)

\* s is the beginning of t
IsPrefix(s, t) == Len(s) <= Len(t) /\ SubSeq(t, 1, Len(s)) = s

\* a step of an operation that is not in force mode: no user edit, no step
\* of refreshInsights --force or of a call with forceUpdate = true
NonForceStep ==
    /\ edits' = edits
    /\ ~call.forceUpdate /\ ~call'.forceUpdate
    /\ call.pc # "refresh" /\ call'.pc # "refresh"

\* C26: a step of a non-force operation (processActivityWithInsights with
\* forceUpdate = false, the sweep) removes no insight from a remote
\* description and deletes no record: every description is kept as the
\* beginning of the new one, every stored row is still in the store, and an
\* activity that is LocalAndRemote stays so.
C26_NonForceKeepsInsights ==
    [][NonForceStep =>
          /\ \A id \in ActivityIds :
                /\ IsPrefix(DescriptionOf(remote[id]), DescriptionOf(remote'[id]))
                /\ (Stored(id) /\ Marked(id)) => (Stored(id) /\ Marked(id))'
          /\ \A i \in 1..Len(store) : \E j \in 1..Len(store') : store'[j] = store[i]]_vars

\* the sweep met a LocalAndRemote activity whose marker it could not see (the
\* fetch of hasActivityInsight failed), called addActivityComment, and the
\* description with its insight is as it was
C26_Witness ==
    /\ sweep.pc = "done"
    /\ Len(sweep.visited) = 1
    /\ sweep.visited[1].marked /\ ~sweep.visited[1].hasInsight
    /\ lastAdd.valid /\ lastAdd.fetched /\ lastAdd.ret /\ ~lastAdd.wrote
    /\ Stored(lastAdd.activityId) /\ Marked(lastAdd.activityId)
    /\ DescriptionOf(remote[lastAdd.activityId]) = lastAdd.before

\* C27: a fault of the local store in a store step of
\* processActivityWithInsights (initAIInsightsTable, hasAIInsight,
\* saveAIInsight) is raised to the caller of the call instead of ending the
\* call with the ordinary null result.
C27_StoreFaultPropagates == (CallDone /\ call.fault) => call.raised

(***************************************************************************)
(* The batch loops: processActivitiesWithInsights (utils/ai_insights.ts)   *)
(* and the loop of refreshInsights (refresh_insights.ts), from the point   *)
(* where the list of activities is at hand.  Each activity's call is the   *)
(* engine's processActivityWithInsights, step by step.                     *)
(***************************************************************************)
\* the lists without repetition of members of S
RECURSIVE ListsOf(_)
ListsOf(S) ==
    IF S = {} THEN {<<>>}
    ELSE UNION { {<<>>} \cup { <<a>> \o l : l \in ListsOf(S \ {a}) } : a \in S }

\* the place of an activity in the remote service's listing (getActivities
\* lists the most recent first)
ListingRank(a) ==
    IF StringOf(a.activityId) = "200" THEN 1
    ELSE IF a.activityId.kind = "num" THEN 2 ELSE 3

\* the lists of activities a batch is given: a part of the listing, in its
\* order
ActivityLists ==
    { l \in ListsOf(Activities) :
        /\ l # <<>>
        /\ \A i \in 1..Len(l), j \in 1..Len(l) :
              i < j => ListingRank(l[i]) < ListingRank(l[j]) }

BatchModes == {"batch", "refresh"}

\* what the loop notes of an activity it is through with
Visit(id, prior, skipped, processed, genFailed, remoteFailed, storeFault) ==
    [activityId |-> id, priorRecord |-> prior, skipped |-> skipped,
     processed |-> processed, genFailed |-> genFailed,
     remoteFailed |-> remoteFailed, storeFault |-> storeFault]

\* faulty variant of BatchAdvance: an activity whose generation or remote
\* post failed ends the loop
BatchAdvanceStopOnFailure(b, visit) ==
    LET b1 == [b EXCEPT !.visited = Append(@, visit), !.idx = @ + 1]
    IN IF visit.genFailed \/ visit.remoteFailed
       THEN [b1 EXCEPT !.pc = "aborted", !.cause = "failure"]
       ELSE IF b1.idx > Len(b1.list) THEN [b1 EXCEPT !.pc = "done"]
       ELSE [b1 EXCEPT !.pc = "loop"]

\* the for loop goes on to the next activity, whatever the last one did, and
\* ends after the last one
BatchAdvance(b, visit) ==
    LET b1 == [b EXCEPT !.visited = Append(@, visit), !.idx = @ + 1]
    IN IF b1.idx > Len(b1.list) THEN [b1 EXCEPT !.pc = "done"]
       ELSE [b1 EXCEPT !.pc = "loop"]

\* the rows the run can insert at most: processActivitiesWithInsights passes
\* over the activities that have a record without calling anything
SavesAhead(mode, list) ==
    IF mode = "batch"
    THEN Cardinality({ k \in 1..Len(list) :
                         ~HasAIInsight(store, StringOf(list[k].activityId)) })
    ELSE Len(list)

\* entry of the batch: the feature check, then initAIInsightsTable, whose
\* failure ends the run (ai_insights.ts:534, refresh_insights.ts:129);
\* downloadAllGarminCN does neither before its loop
BatchStart(mode, force, client, list, fault) ==
    LET b0 == [IdleBatch EXCEPT !.mode = mode, !.force = force, !.client = client,
                                !.list = list, !.kills = batch.kills,
                                !.cut = batch.cut]
    IN /\ batch.pc \in {"idle", "done", "aborted"}
       /\ EngineIdle
       /\ seq + SavesAhead(mode, list) <= MaxSaves
       /\ mode = "refresh" => client
       /\ mode = "batch" => ~force
       /\ mode = "download" => client /\ ~force
       /\ IF mode = "download"
          THEN /\ batch' = [b0 EXCEPT !.pc = "loop", !.idx = 1]
               /\ UNCHANGED columns
          ELSE IF ~enabled
          THEN /\ batch' = [b0 EXCEPT !.pc = "done", !.cause = "disabled"]
               /\ UNCHANGED columns
          ELSE /\ columns' = InitAIInsightsTable(columns)
               /\ batch' = IF fault \/ InitAIInsightsTableThrows(columns)
                           THEN [b0 EXCEPT !.pc = "aborted", !.cause = "store"]
                           ELSE [b0 EXCEPT !.pc = "loop", !.idx = 1]
       /\ call' = IdleCall
       /\ prev' = NoPrev
       /\ sweep' = IdleSweep
       /\ lastAdd' = NoAdd
       /\ UNCHANGED <<enabled, store, seq, remote, edits, gen, parse, hist, ctx, gate, prompt, upsert>>

\* the head of one iteration.  downloadAllGarminCN downloads the activity's
\* file (a failed download ends the run, the loop has no try block) and asks
\* isAIInsightsEnabled before the call.  processActivitiesWithInsights asks hasAIInsight,
\* outside any try block, and skips the activity that has a record;
\* refreshInsights --force calls deleteInsight inside the try block of the
\* iteration; then the activity's call begins
BatchCheck(fault) ==
    LET activity == batch.list[batch.idx]
        id == StringOf(activity.activityId)
    IN /\ batch.pc = "loop"
       /\ IF batch.mode = "download"
          THEN /\ UNCHANGED store
               /\ call' = IdleCall
               /\ batch' = IF fault
                            THEN [batch EXCEPT !.pc = "aborted", !.cause = "download"]
                            ELSE IF ~enabled
                            THEN BatchAdvance(batch, Visit(id, HasAIInsight(store, id), TRUE,
                                                           FALSE, FALSE, FALSE, FALSE))
                            ELSE [batch EXCEPT !.pc = "item",
                                               !.prior = HasAIInsight(store, id)]
          ELSE IF batch.mode = "batch"
          THEN /\ UNCHANGED store
               /\ IF fault
                  THEN /\ batch' = [batch EXCEPT !.pc = "aborted", !.cause = "store"]
                       /\ call' = IdleCall
                  ELSE IF HasAIInsight(store, id)
                  THEN /\ batch' = BatchAdvance(batch,
                                       Visit(id, TRUE, TRUE, FALSE, FALSE, FALSE, FALSE))
                       /\ call' = IdleCall
                  ELSE /\ batch' = [batch EXCEPT !.pc = "item",
                                         !.prior = HasAIInsight(store, id)]
                       /\ call' = IdleCall
          ELSE IF batch.force
          THEN IF fault
               THEN /\ batch' = BatchAdvance([batch EXCEPT !.errorCount = @ + 1],
                                    Visit(id, HasAIInsight(store, id), FALSE, FALSE, FALSE,
                                          FALSE, TRUE))
                    /\ call' = IdleCall
                    /\ UNCHANGED store
               ELSE /\ store' = DeleteInsight(store, id)
                    /\ batch' = [batch EXCEPT !.pc = "item",
                                         !.prior = HasAIInsight(store, id)]
                    /\ call' = [IdleCall EXCEPT !.pc = "refresh", !.activityId = id,
                                                !.activityName = activity.activityName]
          ELSE /\ batch' = [batch EXCEPT !.pc = "item",
                                         !.prior = HasAIInsight(store, id)]
               /\ call' = IdleCall
               /\ UNCHANGED store
       /\ prev' = NoPrev
       /\ lastAdd' = NoAdd
       /\ UNCHANGED <<enabled, columns, seq, remote, edits, sweep, gen, parse, hist, ctx,
                   gate, prompt, upsert>>

\* the activity's call begins: processActivityWithInsights(activity, client,
\* activities[, force])
BatchCall(fault) ==
    /\ batch.pc = "item"
    /\ call.pc \in {"idle", "refresh"}
    /\ ProcessStart(batch.list[batch.idx], batch.client, batch.force, fault)

\* faulty variant of Awaited: the loop does not wait for the call it began
AwaitedAtOnce(c) == c.pc # "idle"

\* the loop's await of the activity's call: the iteration goes on when the
\* promise of processActivityWithInsights is settled
Awaited(c) == c.pc = "done"

\* the call has returned: the loop counts its result and goes on
BatchCollect ==
    LET visit == Visit(call.activityId,
                       batch.prior,
                       call.gens = 0 /\ ~call.fault,
                       ~call.ret.isNull,
                       call.gens = 1 /\ call.result.isNull,
                       call.saves = 1 /\ call.client /\ ~call.commentOk,
                       call.fault)
        counted == IF ~call.ret.isNull
                   THEN [batch EXCEPT !.processedCount = @ + 1]
                   ELSE IF batch.mode = "refresh"
                   THEN [batch EXCEPT !.skippedCount = @ + 1]
                   ELSE batch
    IN /\ batch.pc = "item"
       /\ Awaited(call)
       /\ batch' = BatchAdvance(counted, visit)
       /\ UNCHANGED <<enabled, columns, store, seq, remote, edits, call, prev, sweep,
                      lastAdd, gen, parse, hist, ctx, gate, prompt, upsert>>

NextBatch ==
    \/ \E mode \in BatchModes, force \in BOOLEAN, client \in BOOLEAN,
          list \in ActivityLists, fault \in BOOLEAN :
          BatchStart(mode, force, client, list, fault)
    \/ \E fault \in BOOLEAN : BatchCheck(fault)
    \/ \E fault \in BOOLEAN : BatchCall(fault)
    \/ \E r \in GenResults \cup {NullResult} : ProcessGenerate(r)
    \/ \E fault \in BOOLEAN : ProcessSave(fault)
    \/ \E fetch \in FetchOutcomes, post \in PostOutcomes : ProcessComment(fetch, post)
    \/ BatchCollect

SpecBatch == Init /\ [][NextBatch]_vars

\* every step of a batch that has begun is awaited by the loop, and every
\* awaited operation settles: the store and the remote service answer or
\* reject, the generation client gives up after MAX_RETRIES attempts.  All
\* outcomes of an awaited operation are enabled in the same states and each
\* of them ends the wait, so the condition that the operation does not stay
\* pending for ever is written with one outcome of addActivityComment
BatchStep ==
    \/ \E fault \in BOOLEAN : BatchCheck(fault)
    \/ \E fault \in BOOLEAN : BatchCall(fault)
    \/ \E r \in GenResults \cup {NullResult} : ProcessGenerate(r)
    \/ \E fault \in BOOLEAN : ProcessSave(fault)
    \/ ProcessComment("throw", "throw")
    \/ BatchCollect

SpecBatchLive == SpecBatch /\ WF_vars(BatchStep)

\* the identifiers of the first n activities of the batch's list
ListIds(n) == [k \in 1..n |-> StringOf(batch.list[k].activityId)]

\* the identifiers of the activities the loop is through with
VisitedIds == [k \in 1..Len(batch.visited) |-> batch.visited[k].activityId]

BatchRunning == batch.pc \in {"loop", "item"}
BatchEnded == batch.pc \in {"done", "aborted"}

\* C28: a batch (processActivitiesWithInsights, the loop of refreshInsights)
\* that has begun ends (no behaviour stays inside the loop for ever, and the
\* loop is left only by ending the run); the loop visits the activities in the order of the
\* list; when it ends every activity of the list has been visited, also
\* those that follow an activity whose generation or remote post failed,
\* unless a fault of the store ended the run.
C28_BatchRunsToCompletion ==
    /\ [](BatchRunning => /\ batch.idx \in 1..Len(batch.list)
                          /\ VisitedIds = ListIds(batch.idx - 1))
    /\ []((BatchEnded /\ batch.cause # "disabled")
             => \/ VisitedIds = ListIds(Len(batch.list))
                \/ batch.pc = "aborted" /\ batch.cause = "store")
    /\ [](batch.pc = "aborted" => batch.cause = "store")
    /\ []<>(~BatchRunning)

\* a batch of two activities has ended: the generation failed for the first,
\* the remote post for the second, and both were visited
C28_Witness ==
    /\ batch.pc = "done"
    /\ Len(batch.list) = 2 /\ Len(batch.visited) = 2
    /\ batch.visited[1].genFailed
    /\ batch.visited[2].remoteFailed /\ batch.visited[2].processed

(***************************************************************************)
(* Repeated sweeps.  Calls without force leave records, some of them       *)
(* without their remote insight; users edit descriptions; the sweep runs   *)
(* again and again.                                                        *)
(***************************************************************************)
NextReconcile ==
    \/ \E a \in Activities, client \in BOOLEAN, fault \in BOOLEAN :
          ProcessStart(a, client, FALSE, fault)
    \/ \E r \in GenResults \cup {NullResult} : ProcessGenerate(r)
    \/ \E fault \in BOOLEAN : ProcessSave(fault)
    \/ \E fetch \in FetchOutcomes, post \in PostOutcomes : ProcessComment(fetch, post)
    \/ \E fault \in BOOLEAN : SweepStart(fault)
    \/ \E f1 \in FetchOutcomes, f2 \in FetchOutcomes, post \in PostOutcomes :
          SweepItem(f1, f2, post)
    \/ \E id \in ActivityIds, d \in UserDescriptions : ExternalEdit(id, d)

SpecReconcile == Init /\ [][NextReconcile]_vars

\* a call that has begun does not stay pending for ever: each awaited
\* operation settles (the outcomes of one operation are enabled in the same
\* states, the condition is written with one of them)
CallSettles ==
    \/ ProcessGenerate(NullResult)
    \/ ProcessSave(TRUE)
    \/ ProcessComment("throw", "throw")

\* the sweep is at the record of the identifier, and its remote fetches and
\* its write all succeed
SweepItemSucceeds(id) ==
    /\ sweep.pc = "loop"
    /\ sweep.list[sweep.idx].activityId = id
    /\ SweepItem("ok", "ok", "ok")

\* the sweep is run again and again, and for every activity the remote
\* fetches and writes that are tried again and again eventually succeed
SpecSweepLive ==
    /\ SpecReconcile
    /\ WF_vars(CallSettles)
    /\ SF_vars(SweepStart(FALSE))
    /\ \A id \in ActivityIds : SF_vars(SweepItemSucceeds(id))

\* every stored record's remote description carries the marker
AllSynced == \A id \in ActivityIds : Stored(id) => Marked(id)

\* C29: an activity that is LocalOnly (record stored, no marker in the remote
\* description: the post failed, no client was given, or a user edited the
\* description) becomes LocalAndRemote, and once every stored record's
\* description carries the marker a step of the sweep writes nothing.
C29_SweepReconciles ==
    /\ \A id \in ActivityIds : (Stored(id) /\ ~Marked(id)) ~> (Stored(id) /\ Marked(id))
    /\ [][(AllSynced /\ sweep.pc = "loop") => remote' = remote]_vars

\* a sweep has ended that wrote the insight of a record whose post had
\* failed, into a description a user had typed
C29_Witness ==
    /\ sweep.pc = "done"
    /\ \E k \in 1..Len(sweep.visited) :
          /\ ~sweep.visited[k].marked /\ sweep.visited[k].wrote
    /\ lastAdd.valid /\ lastAdd.wrote /\ lastAdd.before # <<>>
    /\ AllSynced /\ store # <<>>

\* the iteration of refreshInsights --force that the loop has just ended
ForcedPassEnded ==
    /\ batch.mode = "refresh" /\ batch.force
    /\ batch.pc \in {"loop", "done"}
    /\ batch.visited # <<>>

\* C30: at the end of the forced pass of refreshInsights for an activity that
\* had a stored record, the store holds exactly one record of the
\* identifier: the pass does not end with the record deleted and none put
\* in its place.
C30_ForcedPassKeepsOneRecord ==
    ForcedPassEnded =>
        LET v == batch.visited[Len(batch.visited)]
        IN v.priorRecord => Cardinality(RowsOf(store, v.activityId)) = 1

(***************************************************************************)
(* Runs that are terminated and run again.  The process is killed at any   *)
(* point of a batch without force or of a sweep: what it held in memory is *)
(* gone, the store and the remote descriptions stay as they are.           *)
(***************************************************************************)
\* number of terminations
MaxKills == 1

Terminate ==
    /\ BatchRunning \/ sweep.pc = "loop"
    /\ batch.kills < MaxKills
    /\ batch' = [batch EXCEPT !.pc = IF BatchRunning THEN "aborted" ELSE @,
                              !.cause = IF BatchRunning THEN "terminated" ELSE @,
                              !.kills = @ + 1,
                              !.cut = IF call.pc = "comment"
                                      THEN call.activityId ELSE @]
    /\ call' = IdleCall
    /\ prev' = NoPrev
    /\ sweep' = IdleSweep
    /\ lastAdd' = NoAdd
    /\ UNCHANGED <<enabled, columns, store, seq, remote, edits, gen, parse, hist, ctx,
                   gate, prompt, upsert>>

\* the sweep is run when no batch is running
RerunSweepStart(fault) == ~BatchRunning /\ SweepStart(fault)

\* what the generation client returns in these runs: one insight, or null
RerunResults == { r \in GenResults : r.confidence = 85 } \cup {NullResult}

NextRerun ==
    \/ \E list \in ActivityLists, fault \in BOOLEAN :
          BatchStart("batch", FALSE, TRUE, list, fault)
    \/ \E fault \in BOOLEAN : BatchCheck(fault)
    \/ \E fault \in BOOLEAN : BatchCall(fault)
    \/ \E r \in RerunResults : ProcessGenerate(r)
    \/ \E fault \in BOOLEAN : ProcessSave(fault)
    \/ \E fetch \in FetchOutcomes, post \in PostOutcomes : ProcessComment(fetch, post)
    \/ BatchCollect
    \/ \E fault \in BOOLEAN : RerunSweepStart(fault)
    \/ \E f1 \in FetchOutcomes, f2 \in FetchOutcomes, post \in PostOutcomes :
          SweepItem(f1, f2, post)
    \/ Terminate

SpecRerun == Init /\ [][NextRerun]_vars

\* a batch that is not terminated goes on, the sweep is run again and again,
\* and for every activity the sweep's fetches and write eventually succeed
SpecRerunLive ==
    /\ SpecRerun
    /\ WF_vars(BatchStep)
    /\ SF_vars(RerunSweepStart(FALSE))
    /\ \A id \in ActivityIds : SF_vars(SweepItemSucceeds(id))

\* C31: with batches and sweeps without force that are terminated at any
\* point and run again, a generation is never begun for an activity that has
\* a record, no remote description holds more than one insight block, and an
\* activity that has its record and no remote insight (its call was cut
\* between the store write and the remote post) gets it from a later sweep.
C31_RerunResumes ==
    /\ [](call.pc = "generate" => ~Stored(call.activityId))
    /\ [](\A id \in ActivityIds : InsightBlocks(DescriptionOf(remote[id])) <= 1)
    /\ \A id \in ActivityIds : (Stored(id) /\ ~Marked(id)) ~> Marked(id)

\* the call of an activity was cut between the store write and the remote
\* post, the batch was run again, and a later sweep wrote the insight
C31_Witness ==
    /\ batch.cut # "" /\ Stored(batch.cut) /\ Marked(batch.cut)
    /\ batch.pc = "done" /\ batch.kills >= 1
    /\ \E k \in 1..Len(batch.visited) :
          batch.visited[k].activityId = batch.cut /\ batch.visited[k].skipped
    /\ sweep.pc = "done"
    /\ \E k \in 1..Len(sweep.visited) :
          /\ sweep.visited[k].activityId = batch.cut
          /\ sweep.visited[k].wrote

\* ---------------------------------------------------------------------------
\* the three loops over a list of activities: processActivitiesWithInsights,
\* refreshInsights and downloadAllGarminCN

LoopModes == BatchModes \cup {"download"}

NextLoops ==
    \/ \E mode \in LoopModes, force \in BOOLEAN, client \in BOOLEAN,
          list \in ActivityLists, fault \in BOOLEAN :
          BatchStart(mode, force, client, list, fault)
    \/ \E fault \in BOOLEAN : BatchCheck(fault)
    \/ \E fault \in BOOLEAN : BatchCall(fault)
    \/ \E r \in RerunResults : ProcessGenerate(r)
    \/ \E fault \in BOOLEAN : ProcessSave(fault)
    \/ \E fetch \in FetchOutcomes, post \in PostOutcomes : ProcessComment(fetch, post)
    \/ BatchCollect

SpecLoops == Init /\ [][NextLoops]_vars

\* a call of processActivityWithInsights has begun and has not returned
InFlight == call.pc \in {"generate", "save", "comment"}

\* C32: in every batch mode the activities go through the pipeline one after
\* the other: while the call of one activity is in flight the loop stands at
\* that activity, every activity before it in the list is through, and the
\* loop takes no step (it begins nothing for the next activity) until the
\* call has returned; so one generation call at most is in flight.
C32_OneActivityAtATime ==
    /\ [](InFlight => /\ batch.pc = "item"
                      /\ call.activityId = StringOf(batch.list[batch.idx].activityId)
                      /\ VisitedIds = ListIds(batch.idx - 1))
    /\ [][InFlight => batch' = batch]_vars
    /\ [][(call'.pc = "generate" /\ call.pc # "generate")
            => (batch.pc = "item" /\ ~InFlight)]_vars

\* the generation call of the second activity of a download run is in
\* flight, after the first activity went through the whole pipeline
C32_Witness ==
    /\ batch.mode = "download"
    /\ batch.idx = 2
    /\ call.pc = "generate"
    /\ Len(batch.visited) = 1
    /\ batch.visited[1].processed
    /\ Marked(batch.visited[1].activityId)
(***************************************************************************)
(* waitForRateLimit under two overlapping invocations of                   *)
(* generateActivityInsights.  Each invocation passes the gate, makes its   *)
(* external call and returns; the two share the clock and lastRequestTime. *)
(***************************************************************************)
\* number of external calls
MaxGateCalls == 3

Invocations == 1..2

Later(a, b) == IF a >= b THEN a ELSE b

\* the invocations whose timer is set
GateWaiting == { j \in Invocations : gate.pc[j] = "waiting" }

\* invocation i leaves waitForRateLimit at time t: lastRequestTime =
\* Date.now(), then model.generateContent begins
GateLeft(i, t) ==
    [gate EXCEPT !.now = t, !.lastRequestTime = t, !.pc[i] = "calling",
                 !.starts = Append(@, t)]

\* invocation i enters waitForRateLimit: it reads the clock and
\* lastRequestTime; too early, it sets its timer, otherwise it leaves at once
GateEnter(i, elapsed) ==
    /\ gate.pc[i] = "idle"
    /\ Len(gate.starts) + Cardinality(GateWaiting) < MaxGateCalls
    /\ LET now == gate.now + elapsed
           timeSinceLastRequest == now - gate.lastRequestTime
       IN gate' = IF timeSinceLastRequest < MIN_REQUEST_INTERVAL_MS
                  THEN [gate EXCEPT !.now = now, !.pc[i] = "waiting",
                           !.due[i] = now + (MIN_REQUEST_INTERVAL_MS - timeSinceLastRequest)]
                  ELSE GateLeft(i, now)
    /\ UNCHANGED <<enabled, columns, store, seq, remote, edits, call, prev, sweep,
                   lastAdd, gen, parse, hist, ctx, batch, prompt, upsert>>

\* the timer of invocation i fires, no timer that is due earlier being left
GateWake(i, late) ==
    /\ gate.pc[i] = "waiting"
    /\ \A j \in GateWaiting : gate.due[j] >= gate.due[i]
    /\ gate' = GateLeft(i, Later(gate.now, gate.due[i]) + late)
    /\ UNCHANGED <<enabled, columns, store, seq, remote, edits, call, prev, sweep,
                   lastAdd, gen, parse, hist, ctx, batch, prompt, upsert>>

\* the external call of invocation i settles and the invocation returns
GateReturn(i, duration) ==
    /\ gate.pc[i] = "calling"
    /\ gate' = [gate EXCEPT !.now = @ + duration, !.pc[i] = "idle"]
    /\ UNCHANGED <<enabled, columns, store, seq, remote, edits, call, prev, sweep,
                   lastAdd, gen, parse, hist, ctx, batch, prompt, upsert>>

NextGate ==
    \/ \E i \in Invocations, elapsed \in Elapsed : GateEnter(i, elapsed)
    \/ \E i \in Invocations, late \in Late : GateWake(i, late)
    \/ \E i \in Invocations, duration \in Elapsed : GateReturn(i, duration)

SpecGate == InitGen /\ [][NextGate]_vars

\* C33: the external generation calls start MIN_REQUEST_INTERVAL_MS apart at
\* least, also when two invocations of generateActivityInsights are in
\* flight and both pass through waitForRateLimit.
C33_GateSerialises ==
    \A k \in 1..(Len(gate.starts) - 1) :
        gate.starts[k + 1] - gate.starts[k] >= MIN_REQUEST_INTERVAL_MS
(***************************************************************************)
(* formatActivityPrompt: the workout hints.  ai_insights.ts and garmin_cn.ts*)
(* each define the function; a name is a sequence of words, heart rates    *)
(* are in bpm, distances and elevation in metres, durations in seconds,    *)
(* training effects in tenths.  A metric that is absent is 0 (both are     *)
(* falsy in the tests of the code).                                        *)
(***************************************************************************)
PromptNames ==
    {<<"Shenzhen", "Running">>, <<"Hill", "Sprint">>, <<"Easy", "Run">>,
     <<"TEMPO", "Run">>}

HeartRates == {0, 150, 160, 190}
ElevationGains == {0, 100, 200}
Distances == {0, 5000}
Durations == {1800, 4000}
TrainingEffects == {0, 5, 30}

PromptMetrics ==
    [maxHR : HeartRates, averageHR : HeartRates, elevationGain : ElevationGains,
     distance : Distances, duration : Durations,
     aerobicTrainingEffect : TrainingEffects,
     anaerobicTrainingEffect : TrainingEffects]

\* String.prototype.toLowerCase, word by word
LowerWord(w) ==
    CASE w = "Shenzhen" -> "shenzhen"
      [] w = "Running" -> "running"
      [] w = "Hill" -> "hill"
      [] w = "Sprint" -> "sprint"
      [] w = "Easy" -> "easy"
      [] w = "Run" -> "run"
      [] w = "TEMPO" -> "tempo"
      [] OTHER -> w

ToLowerCase(name) == [k \in 1..Len(name) |-> LowerWord(name[k])]

\* the hint is pushed when its test holds
HintIf(test, hint) == IF test THEN <<hint>> ELSE <<>>

\* ai_insights.ts: the hints are read off the activity name
WorkoutHints(name, metrics) ==
    LET nameLower == ToLowerCase(name)
        has(words) == \E w \in words : Includes(nameLower, <<w>>)
    IN HintIf(has({"sprint", "interval", "hiit", "speed"}), <<"high-intensity/sprint">>)
       \o HintIf(has({"recovery", "easy", "slow"}), <<"recovery/easy">>)
       \o HintIf(has({"long", "lsd", "endurance"}), <<"long/endurance">>)
       \o HintIf(has({"tempo", "threshold"}), <<"tempo/threshold">>)
       \o HintIf(has({"hill", "climb"}), <<"hill">>)

\* garmin_cn.ts: the hints are inferred from the metrics; a hint carries the
\* figures its text cites
WorkoutHintsFromData(name, metrics) ==
    LET hrVariance == metrics.maxHR - metrics.averageHR
        bothHR == metrics.maxHR # 0 /\ metrics.averageHR # 0
        aerobic == metrics.aerobicTrainingEffect
        anaerobic == metrics.anaerobicTrainingEffect
    IN HintIf(bothHR /\ hrVariance > 30, <<"INTERVAL/SPRINT INDICATOR", hrVariance>>)
       \o HintIf(anaerobic # 0 /\ anaerobic >= 30, <<"HIGH INTENSITY INDICATOR", anaerobic>>)
       \o HintIf(aerobic # 0 /\ anaerobic # 0 /\ aerobic >= 20 /\ anaerobic < 10,
                 <<"EASY/RECOVERY INDICATOR", aerobic, anaerobic>>)
       \o HintIf(metrics.duration > 60 * 60 /\ aerobic # 0 /\ aerobic >= 30,
                 <<"LONG RUN INDICATOR", metrics.duration, aerobic>>)
       \o HintIf(bothHR /\ hrVariance <= 15 /\ metrics.averageHR > 150,
                 <<"TEMPO/THRESHOLD INDICATOR", metrics.averageHR, hrVariance>>)
       \o HintIf(/\ metrics.elevationGain # 0 /\ metrics.distance # 0
                 /\ metrics.elevationGain * 1000 > 30 * metrics.distance,
                 <<"HILL WORKOUT INDICATOR", metrics.elevationGain, metrics.distance>>)

PromptVersions == {"ai_insights", "garmin_cn"}

HintsOf(version, name, metrics) ==
    IF version = "ai_insights" THEN WorkoutHints(name, metrics)
    ELSE WorkoutHintsFromData(name, metrics)

\* two activities that differ in their name only are formatted
FormatActivityPrompt(version) ==
    /\ prompt.pc = "idle"
    /\ prompt' = [prompt EXCEPT !.pc = "done", !.version = version,
                     !.hintsA = HintsOf(version, prompt.nameA, prompt.metrics),
                     !.hintsB = HintsOf(version, prompt.nameB, prompt.metrics)]
    /\ UNCHANGED <<enabled, columns, store, seq, remote, edits, call, prev, sweep,
                   lastAdd, gen, parse, hist, ctx, batch, gate, upsert>>

InitPrompt ==
    /\ enabled = TRUE
    /\ columns = {}
    /\ EngineAtRest
    /\ gen = IdleGen
    /\ parse = NoParse
    /\ hist = NoHist
    /\ ctx = NoContext
    /\ batch = IdleBatch
    /\ gate = IdleGate
    /\ upsert = NoUpsert
    /\ \E metrics \in PromptMetrics, nameA \in PromptNames, nameB \in PromptNames :
          prompt = [NoPrompt EXCEPT !.metrics = metrics, !.nameA = nameA,
                                    !.nameB = nameB]

NextPrompt == \E version \in PromptVersions : FormatActivityPrompt(version)

SpecPrompt == InitPrompt /\ [][NextPrompt]_vars

\* C35: the workout hints of the prompt depend on the numeric metrics only:
\* two activities that differ in their name only get the same hints.
C35_HintsFromMetricsOnly ==
    prompt.pc = "done" => prompt.hintsA = prompt.hintsB

\* the same for the formatter of garmin_cn.ts alone
HintsFromMetricsInCopy ==
    (prompt.pc = "done" /\ prompt.version = "garmin_cn")
      => prompt.hintsA = prompt.hintsB

\* the formatter of garmin_cn.ts gave the interval, the threshold or the hill
\* hint
CopyGaveHints ==
    /\ prompt.pc = "done" /\ prompt.version = "garmin_cn"
    /\ \E k \in 1..Len(prompt.hintsA) :
          prompt.hintsA[k][1] = "HILL WORKOUT INDICATOR"
(***************************************************************************)
(* addActivityComment step by step: getActivity, then the POST of the new  *)
(* description.  The user may edit the description at any moment, also     *)
(* between the two requests.                                               *)
(***************************************************************************)
\* number of invocations of addActivityComment
MaxUpserts == 2

UpsertComments ==
    { ComposeComment(r.model, r.confidence, r.insight) : r \in RerunResults \ {NullResult} }

\* addActivityComment has returned
UpsertReturns(u, ret) == [u EXCEPT !.pc = "done", !.ret = ret]

\* addActivityComment up to its POST: getActivity, the marker check, the
\* removal in force mode and the new description
UpsertFetch(id, comment, forceCheck, fetch) ==
    LET u == [NoUpsert EXCEPT !.runs = upsert.runs + 1, !.activityId = id,
                              !.comment = comment, !.forceCheck = forceCheck,
                              !.atFetch = remote[id]]
        current == DescriptionOf(remote[id])
    IN /\ upsert.pc \in {"idle", "done"}
       /\ upsert.runs < MaxUpserts
       /\ upsert' = IF fetch # "ok" THEN UpsertReturns(u, FALSE)
                    ELSE IF HasInsightMarker(current) /\ ~forceCheck
                    THEN UpsertReturns(u, TRUE)
                    ELSE [u EXCEPT !.pc = "post",
                                   !.newDescription = NewDescription(current, comment)]
       /\ UNCHANGED <<enabled, columns, store, seq, remote, edits, call, prev, sweep,
                      lastAdd, gen, parse, hist, ctx, batch, gate, prompt>>

\* the POST: the description composed from the fetched text replaces the
\* remote description, whatever it is by now
UpsertPost(post) ==
    LET id == upsert.activityId
    IN /\ upsert.pc = "post"
       /\ IF post # "ok"
          THEN /\ upsert' = UpsertReturns(upsert, FALSE)
               /\ UNCHANGED remote
          ELSE /\ remote' = [remote EXCEPT ![id] =
                                [descNull |-> FALSE,
                                 description |-> upsert.newDescription]]
               /\ upsert' = [UpsertReturns(upsert, TRUE) EXCEPT
                                !.atWrite = DescriptionOf(remote[id]),
                                !.written = upsert.newDescription, !.wrote = TRUE]
       /\ UNCHANGED <<enabled, columns, store, seq, edits, call, prev, sweep,
                      lastAdd, gen, parse, hist, ctx, batch, gate, prompt>>

NextUpsert ==
    \/ \E id \in ActivityIds, comment \in UpsertComments, forceCheck \in BOOLEAN,
          fetch \in FetchOutcomes : UpsertFetch(id, comment, forceCheck, fetch)
    \/ \E post \in PostOutcomes : UpsertPost(post)
    \/ \E id \in ActivityIds, d \in UserDescriptions : ExternalEdit(id, d)

SpecUpsert == Init /\ [][NextUpsert]_vars

\* the remote description was edited between the fetch and the write
EditedBetween == upsert.atWrite # DescriptionOf(upsert.atFetch)

\* without an edit between its two requests the invocation does what
\* AddActivityComment does in one step
UpsertAsInOneStep ==
    (upsert.pc = "done" /\ upsert.wrote /\ ~EditedBetween)
      => LET out == AddActivityComment(upsert.atFetch, upsert.comment,
                                       upsert.forceCheck, "ok", "ok")
         IN out.ret /\ out.wrote /\ DescriptionOf(out.act) = upsert.written

\* C40: a remote upsert discards no text that is in the remote description
\* at the moment of its write: what stood there outside the insight blocks,
\* an edit that landed between the fetch and the write included, is in the
\* description written.
C40_WriteKeepsRemoteText ==
    (upsert.pc = "done" /\ upsert.wrote)
      => IsSubsequence(Trim(OutsideBlocks(upsert.atWrite, 1)), upsert.written)
====
